---- MODULE Spec2Model ----
(***************************************************************************)
(* A model of the selection-and-deletion engine of the container retention *)
(* policy tool: select_package_versions (version listing, per-version      *)
(* filter, manifest fetches, digest reconciliation, keep-n-most-recent)    *)
(* followed by delete_package_versions (two-pass allocation under the      *)
(* remaining-requests budget, concurrent delete tasks, result lists).      *)
(*                                                                         *)
(* Strings that the code matches against glob patterns or concatenates     *)
(* (package names, tags, filters) are sequences of one-character strings.  *)
(* Digests (PackageVersion.name) are only compared for equality and are    *)
(* plain strings.  Option<T> is <<>> for None and <<x>> for Some(x).       *)
(***************************************************************************)
EXTENDS Integers, Sequences, FiniteSets, TLC

VARIABLES
    input,                \* the validated configuration (Input)
    registry,             \* the registry's state: versions per package, manifest per (package, tag)
    pc,                   \* position of the main task
    counts,               \* Counts: remaining_requests, rate_limit_reset, package_versions
    fetch_all_set,        \* per package: the list_package_versions task
    all_package_data,     \* Vec<(package_name, package_versions_to_delete, all_versions)>
    tag_is_kept,          \* HashMap<String, bool>, keyed by "{package_name}:{tag}"
    fetch_digest_set,     \* manifest-fetch tasks spawned and not yet joined
    manifest_result,      \* what each joined manifest fetch returned
    kept_digests,
    deleted_digests,
    digest_tag,           \* HashMap<String, Vec<String>>
    package_version_map,  \* the delete map returned by select_package_versions
    executor,             \* locals of select_package_versions_to_delete
    delete_set,           \* the JoinSet of spawned delete tasks, in spawn order
    delete_requests,      \* DELETE requests sent to the registry, by the task that sent them
    join_result,          \* what the last set.join_next() of the delete loop returned
    deleted_packages,
    failed_packages,
    owner,                \* PackagesClient.owner
    package_fetch,        \* locals of fetch_packages: names to fetch, next page, packages fetched
    abort,                \* why the process ended before the selection, if it did
    rate_limit,           \* the answer to the rate-limit probe, once it arrived
    requests,             \* HTTP requests sent so far, by endpoint
    service,              \* one rate-limited service and the tasks that send through it
    call                  \* one call of a pure function: its arguments and what it returned

vars == <<input, registry, pc, counts, fetch_all_set, all_package_data, tag_is_kept,
          fetch_digest_set, manifest_result, kept_digests, deleted_digests, digest_tag,
          package_version_map, executor, delete_set, delete_requests,
          join_result, deleted_packages, failed_packages, owner, package_fetch, abort,
          rate_limit, requests, service, call>>

selVars == <<counts, fetch_all_set, all_package_data, tag_is_kept, fetch_digest_set,
             manifest_result, kept_digests, deleted_digests, digest_tag, package_version_map>>

delVars == <<executor, delete_set, delete_requests, join_result, deleted_packages,
            failed_packages>>

startVars == <<owner, package_fetch, abort, rate_limit>>

svcVars == <<service, call>>

----------------------------------------------------------------------------
(* Bounds of the model *)

\* Largest keep_n_most_recent the model tries.
MaxKeepN == 1

\* Versions per list-versions page (the code asks for per_page=100).
PerPage == 2

\* Latest instant of the model's clock; the run happens at this instant.
MaxTime == 4

\* Largest untagged delete list per package handed to the deletion executor.
MaxUntagged == 3

\* Largest remaining-requests budget handed to the deletion executor.
MaxAllocatable == 3

\* Tasks that send a request through the rate-limited service under study.
MaxTasks == 3

\* Longest list of versions handed to handle_keep_n_most_recent on its own.
MaxVersions == 3

\* The largest number of filter strings handed to Matchers::from.
MaxFilters == 2

\* The largest number of entries of a link header.
MaxLinks == 2

----------------------------------------------------------------------------
(* Program constants *)

\* usize::MAX, the value a wrapping `-= 1` on 0 produces.  TLC's integers
\* are 32 bits wide, so the model uses the largest of them.
UsizeMax == 2147483647

\* rate_limit_offset passed to list_package_versions.
RateLimitOffset == 0

\* The constants of create_rate_limited_services.
MAX_CONCURRENCY == 100
MAX_POINTS_PER_ENDPOINT_PER_MINUTE == 900
GET_REQUEST_POINTS == 1
DELETE_REQUEST_POINTS == 5

----------------------------------------------------------------------------
(* Generic helpers *)

None == <<>>
Some(x) == <<x>>

Range(s) == {s[i] : i \in 1..Len(s)}

Min(a, b) == IF a <= b THEN a ELSE b

\* All orderings of a finite set, as sequences without repetition.
Orderings(S) ==
    {f \in [1..Cardinality(S) -> S] : \A i, j \in 1..Cardinality(S) : i # j => f[i] # f[j]}

\* HashMap::insert on a map represented as a function.
MapInsert(m, k, v) == [x \in DOMAIN m \cup {k} |-> IF x = k THEN v ELSE m[x]]

EmptyMap == [x \in {} |-> TRUE]

----------------------------------------------------------------------------
(* Data model *)

PkgA == <<"a">>
PkgB == <<"b">>
Packages == <<PkgA, PkgB>>

TagV1  == <<"v", "1">>
TagV2  == <<"v", "2">>
TagDev == <<"d", "e", "v">>

Sha(n) == CASE n = 1 -> "sha256:01" [] n = 2 -> "sha256:02" [] n = 3 -> "sha256:03"
            [] n = 4 -> "sha256:04" [] n = 5 -> "sha256:05" [] OTHER -> "sha256:06"

PV(id, name, tags, created_at, updated_at) ==
    [id |-> id, name |-> name, tags |-> tags, created_at |-> created_at, updated_at |-> updated_at]

\* PackageVersions::new
NewPackageVersions == [untagged |-> <<>>, tagged |-> <<>>]

\* PackageVersions::len
PVLen(pvs) == Len(pvs.untagged) + Len(pvs.tagged)

\* PackageVersions::extend
PVExtend(pvs, other) ==
    [untagged |-> pvs.untagged \o other.untagged, tagged |-> pvs.tagged \o other.tagged]

\* format!("{package_name}:{tag}")
TagKey(package_name, tag) == package_name \o <<":">> \o tag

\* PackageVersion::get_relevant_timestamp
get_relevant_timestamp(pv, timestamp) ==
    IF timestamp = "CreatedAt" THEN pv.created_at
    ELSE IF pv.updated_at # None THEN pv.updated_at[1] ELSE pv.created_at

----------------------------------------------------------------------------
(* Matchers *)

\* WildMatchPattern<'*', '?'>::matches: '*' is any run of characters, '?' is
\* exactly one character, the match is anchored at both ends.
RECURSIVE WildMatch(_, _)
WildMatch(pattern, value) ==
    IF pattern = <<>> THEN value = <<>>
    ELSE IF Head(pattern) = "*"
         THEN WildMatch(Tail(pattern), value)
              \/ (value # <<>> /\ WildMatch(pattern, Tail(value)))
         ELSE /\ value # <<>>
              /\ (Head(pattern) = "?" \/ Head(pattern) = Head(value))
              /\ WildMatch(Tail(pattern), Tail(value))

StartsWithBang(s) == s # <<>> /\ Head(s) = "!"

RECURSIVE StripBangs(_)
StripBangs(filters) ==
    IF filters = <<>> THEN <<>>
    ELSE IF StartsWithBang(Head(filters))
         THEN <<Tail(Head(filters))>> \o StripBangs(Tail(filters))
         ELSE StripBangs(Tail(filters))

\* A parser that takes every filter for a positive pattern.
all_positive_matchers(filters) == [positive |-> filters, negative |-> <<>>]

\* Matchers::from
MatchersFrom(filters) ==
    [positive |-> SelectSeq(filters, LAMBDA f : ~StartsWithBang(f)),
     negative |-> StripBangs(filters)]

\* A matcher set whose negative patterns never hit.
never_negative_match(matchers, value) == FALSE

negative_match(matchers, value) ==
    \E i \in 1..Len(matchers.negative) : WildMatch(matchers.negative[i], value)

positive_match(matchers, value) ==
    \E i \in 1..Len(matchers.positive) : WildMatch(matchers.positive[i], value)

is_empty(matchers) == matchers.positive = <<>> /\ matchers.negative = <<>>

----------------------------------------------------------------------------
(* The per-version filter (Step B) *)

contains_shas_to_skip(shas_to_skip, package_version) ==
    \E i \in 1..Len(shas_to_skip) : shas_to_skip[i] = package_version.name

\* A cut-off that also passes a version exactly as old as the cut-off.
not_newer_than_cutoff(package_version, cut_off, timestamp_to_use, now) ==
    get_relevant_timestamp(package_version, timestamp_to_use) <= now - cut_off

older_than_cutoff(package_version, cut_off, timestamp_to_use, now) ==
    get_relevant_timestamp(package_version, timestamp_to_use) < now - cut_off

\* The arm of filter_by_matchers that a tagged version takes.  The URL that two
\* arms build for their warning is built from a valid base and always parses.
filter_by_matchers(matchers, package_version) ==
    LET tags == package_version.tags
        any_negative_match == \E i \in 1..Len(tags) : negative_match(matchers, tags[i])
        positive_matches ==
            Cardinality({i \in 1..Len(tags) :
                \/ (matchers.positive = <<>> /\ ~any_negative_match)
                \/ positive_match(matchers, tags[i])})
    IN  IF is_empty(matchers) THEN "no_filters"
        ELSE IF any_negative_match /\ positive_matches > 0 THEN "conflict"
        ELSE IF any_negative_match THEN "negative"
        ELSE IF positive_matches = Len(tags) THEN "all_positive"
        ELSE IF positive_matches = 0 THEN "no_match"
        ELSE "partial"

\* Urls::package_version_url: the frontend base, the package name and the id.
package_version_url(package_name, package_id) ==
    <<"packages_frontend_base", package_name, package_id>>

\* What the arm of filter_by_matchers logs: the level, and the URL the message
\* holds, if any.
filter_by_matchers_log(arm, package_name, package_version) ==
    IF arm \in {"conflict", "partial"}
    THEN [level |-> "warn", url |-> Some(package_version_url(package_name, package_version.id))]
    ELSE IF arm = "no_filters" THEN [level |-> "trace", url |-> None]
    ELSE [level |-> "debug", url |-> None]

\* A classification that treats every tag selection as Both.
every_selection_is_both(matchers, tag_selection, package_version) ==
    IF package_version.tags = <<>> THEN "Untagged"
    ELSE IF filter_by_matchers(matchers, package_version) \in {"no_filters", "all_positive"}
         THEN "Tagged" ELSE "None"

\* "Tagged", "Untagged" or "None"
filter_by_tag_selection(matchers, tag_selection, package_version) ==
    LET has_no_tags == package_version.tags = <<>>
    IN  IF tag_selection \in {"Untagged", "Both"} /\ has_no_tags THEN "Untagged"
        ELSE IF tag_selection \in {"Tagged", "Both"} /\ ~has_no_tags
             THEN IF filter_by_matchers(matchers, package_version) \in {"no_filters", "all_positive"}
                  THEN "Tagged" ELSE "None"
        ELSE "None"

\* A per-version filter without the shas-to-skip step.
BucketIgnoringShasToSkip(package_version, shas_to_skip, tag_selection, cut_off, timestamp_to_use, matchers, now) ==
    IF ~older_than_cutoff(package_version, cut_off, timestamp_to_use, now) THEN "None"
    ELSE filter_by_tag_selection(matchers, tag_selection, package_version)

\* The bucket a version of the listing ends in: "Tagged", "Untagged" or "None".
VersionBucket(package_version, shas_to_skip, tag_selection, cut_off, timestamp_to_use, matchers, now) ==
    IF contains_shas_to_skip(shas_to_skip, package_version) THEN "None"
    ELSE IF ~older_than_cutoff(package_version, cut_off, timestamp_to_use, now) THEN "None"
    ELSE filter_by_tag_selection(matchers, tag_selection, package_version)

filter_package_versions(package_versions, shas_to_skip, tag_selection, cut_off, timestamp_to_use, matchers, now) ==
    LET Bucket(v) == VersionBucket(v, shas_to_skip, tag_selection, cut_off,
                                   timestamp_to_use, matchers, now)
    IN  [untagged |-> SelectSeq(package_versions, LAMBDA v : Bucket(v) = "Untagged"),
         tagged   |-> SelectSeq(package_versions, LAMBDA v : Bucket(v) = "Tagged")]

----------------------------------------------------------------------------
(* handle_keep_n_most_recent *)

\* Vec::sort_by_key: a stable sort, ascending by the relevant timestamp.
RECURSIVE InsertSorted(_, _, _)
InsertSorted(sorted, v, timestamp_to_use) ==
    IF sorted = <<>> THEN <<v>>
    ELSE IF get_relevant_timestamp(Head(sorted), timestamp_to_use)
              <= get_relevant_timestamp(v, timestamp_to_use)
         THEN <<Head(sorted)>> \o InsertSorted(Tail(sorted), v, timestamp_to_use)
         ELSE <<v>> \o sorted

\* A sort that leaves the list as it is.
Unsorted(s, timestamp_to_use) == s

RECURSIVE SortByKey(_, _)
SortByKey(s, timestamp_to_use) ==
    IF s = <<>> THEN <<>>
    ELSE InsertSorted(SortByKey(SubSeq(s, 1, Len(s) - 1), timestamp_to_use), s[Len(s)],
                      timestamp_to_use)

handle_keep_n_most_recent(package_versions, keep_n_most_recent, timestamp_to_use) ==
    LET sorted == SortByKey(package_versions, timestamp_to_use)
        kept   == Min(keep_n_most_recent, Len(sorted))
    IN  SubSeq(sorted, 1, Len(sorted) - kept)

----------------------------------------------------------------------------
(* The registry and the configurations the model explores *)

Platform(digest) == IF digest = Sha(3) THEN Some("linux/amd64") ELSE None

\* An OCI image index with the given child digests, as fetch_image_manifest
\* returns it: Vec<(digest, Option<platform>)>.
Index(digests) == [i \in 1..Len(digests) |-> <<digests[i], Platform(digests[i])>>]

\* Package "a" holds two tagged and two untagged versions (two pages), package
\* "b" one tagged and one untagged version.  The untagged version of "b" has
\* the same content address as an untagged version of "a".
VersionsOf(updated_1) ==
    [p \in Range(Packages) |->
        IF p = PkgA
        THEN << PV(1, Sha(1), <<TagV1>>, 0, updated_1),
                PV(3, Sha(3), <<>>, 0, None),
                PV(2, Sha(2), <<TagV2, TagDev>>, 1, None),
                PV(4, Sha(4), <<>>, MaxTime - 1, None) >>
        ELSE << PV(5, Sha(5), <<TagV1>>, 0, None),
                PV(6, Sha(3), <<>>, 0, None) >>]

ManifestsOf(m_a1, m_a2, m_b1) ==
    [k \in {TagKey(PkgA, TagV1), TagKey(PkgA, TagV2), TagKey(PkgA, TagDev), TagKey(PkgB, TagV1)} |->
        IF k = TagKey(PkgA, TagV1) THEN m_a1
        ELSE IF k = TagKey(PkgA, TagV2) THEN m_a2
        ELSE IF k = TagKey(PkgB, TagV1) THEN m_b1
        ELSE <<>>]

Registries ==
    {[versions |-> VersionsOf(u), manifests |-> ManifestsOf(m1, m2, m3)] :
        u \in {Some(MaxTime - 1)},
        m1 \in {Index(<<Sha(3), Sha(4)>>)},
        m2 \in {<<>>, Index(<<Sha(3)>>), Index(<<Sha(1)>>)},
        m3 \in {<<>>, Index(<<Sha(3)>>)}}

ImageTagChoices == { <<>>, << <<"v", "*">>, <<"!", "v", "2">> >>, << <<"d", "*">>, <<"v", "2">> >> }

Inputs ==
    [image_tags         : ImageTagChoices,
     shas_to_skip       : {<<>>, <<Sha(3)>>},
     keep_n_most_recent : 0..MaxKeepN,
     tag_selection      : {"Tagged", "Untagged", "Both"},
     cut_off            : {1},
     timestamp_to_use   : {"CreatedAt", "UpdatedAt"},
     dry_run            : {FALSE},
     now                : {MaxTime},
     token              : {"ClassicPersonalAccess"},
     image_names        : {Packages}]

\* The pages of a package's version listing.
NumPages(p) == (Len(registry.versions[p]) + PerPage - 1) \div PerPage

PageItems(p, k) ==
    SubSeq(registry.versions[p], (k - 1) * PerPage + 1, Min(k * PerPage, Len(registry.versions[p])))

\* The `link` header's rel="next" entry of page k: Some(k + 1) or None.
NextLink(p, k) == IF k < NumPages(p) THEN Some(k + 1) ELSE None

----------------------------------------------------------------------------
(* select_package_versions, step 1: the version listing tasks *)

NewFetchTask ==
    [state |-> "check", next_url |-> Some(1), result |-> NewPackageVersions, items |-> <<>>,
     joined |-> FALSE]

InitSelectVars ==
    /\ fetch_all_set = [p \in Range(Packages) |-> NewFetchTask]
    /\ all_package_data = <<>>
    /\ tag_is_kept = EmptyMap
    /\ fetch_digest_set = {}
    /\ manifest_result = EmptyMap
    /\ kept_digests = {}
    /\ deleted_digests = {}
    /\ digest_tag = EmptyMap
    /\ package_version_map = EmptyMap

\* The client after a start-up that fetched nothing in this model's view: the
\* owner is known, no request has been counted yet.
NoRequests ==
    [rate_limit |-> 0, list_packages |-> 0, fetch_package |-> 0, list_versions |-> 0,
     delete_version |-> 0, manifest |-> 0, via_service |-> 0, remaining_at_start |-> 0]

NoPackageFetch == [names |-> <<>>, next_url |-> None, packages |-> <<>>, in_flight |-> {}]

NoService == [kind |-> "none"]

NoCall == [fn |-> "none"]

InitStartVars ==
    /\ owner = Some("owner")
    /\ package_fetch = [NoPackageFetch EXCEPT !.packages = Packages]
    /\ abort = None
    /\ rate_limit = None
    /\ requests = [NoRequests EXCEPT !.remaining_at_start = counts.remaining_requests]
    /\ service = NoService
    /\ call = NoCall

InitDeleteVars ==
    /\ executor = [initial_allocatable_requests |-> 0, allocatable_requests |-> 0,
                   order |-> <<>>]
    /\ delete_set = <<>>
    /\ delete_requests = {}
    /\ join_result = None
    /\ deleted_packages = <<>>
    /\ failed_packages = <<>>

\* The closure handed to list_package_versions: partition a page by "has tags".
PartitionPage(versions) ==
    [tagged   |-> SelectSeq(versions, LAMBDA v : v.tags # <<>>),
     untagged |-> SelectSeq(versions, LAMBDA v : v.tags = <<>>)]

\* Top of the pagination loop: the budget check, then the request is sent.
BudgetExhausted(c, rate_limit_offset) == c.package_versions > c.remaining_requests + rate_limit_offset

PageRequest(p) ==
    /\ pc = "fetch_all"
    /\ fetch_all_set[p].state = "check"
    /\ IF fetch_all_set[p].next_url = None \/ BudgetExhausted(counts, RateLimitOffset)
       THEN /\ fetch_all_set' = [fetch_all_set EXCEPT ![p].state = "ok"]
            /\ UNCHANGED requests
       ELSE /\ fetch_all_set' = [fetch_all_set EXCEPT ![p].state = "sent"]
            /\ requests' = [requests EXCEPT !.list_versions = @ + 1, !.via_service = @ + 1]
    /\ UNCHANGED <<input, registry, pc, counts, all_package_data, tag_is_kept, fetch_digest_set,
                   manifest_result, kept_digests, deleted_digests, digest_tag,
                   package_version_map>>
    /\ UNCHANGED delVars
    /\ UNCHANGED <<startVars, svcVars>>

\* The response of a page: a failed request, a failed service or a body that does
\* not deserialize end the task with Err; otherwise remaining_requests is
\* decremented.  Decrementing 0 panics (overflow checks on) or wraps (off).
PageResponse(p) ==
    /\ pc = "fetch_all"
    /\ fetch_all_set[p].state = "sent"
    /\ \E outcome \in {"ok", "request_failed", "service_failed", "bad_json"} :
         IF outcome # "ok"
         THEN /\ fetch_all_set' = [fetch_all_set EXCEPT ![p].state = "err"]
              /\ UNCHANGED counts
         ELSE IF counts.remaining_requests = 0
         THEN \/ /\ fetch_all_set' = [fetch_all_set EXCEPT ![p].state = "panicked"]
                 /\ UNCHANGED counts
              \/ /\ fetch_all_set' = [fetch_all_set EXCEPT ![p].state = "count",
                        ![p].items = PageItems(p, fetch_all_set[p].next_url[1])]
                 /\ counts' = [counts EXCEPT !.remaining_requests = UsizeMax]
         ELSE /\ fetch_all_set' = [fetch_all_set EXCEPT ![p].state = "count",
                        ![p].items = PageItems(p, fetch_all_set[p].next_url[1])]
              /\ counts' = [counts EXCEPT !.remaining_requests = @ - 1]
    /\ UNCHANGED <<input, registry, pc, all_package_data, tag_is_kept, fetch_digest_set,
                   manifest_result, kept_digests, deleted_digests, digest_tag,
                   package_version_map>>
    /\ UNCHANGED delVars
    /\ UNCHANGED <<startVars, svcVars, requests>>

\* A write that replaces the counter instead of adding to it.
CountPageFromZero(c, package_versions) ==
    [c EXCEPT !.package_versions = PVLen(package_versions)]

\* `*counts.package_versions.write().await += package_versions.len()`: the read
\* and the write happen under one write lock.
CountPage(c, package_versions) ==
    [c EXCEPT !.package_versions = @ + PVLen(package_versions)]

\* The rest of the loop body: package_versions is incremented by the page's
\* filtered length, the page is appended, and the next link is followed when the
\* response's x-ratelimit-remaining header is above 1.
PageCount(p) ==
    /\ pc = "fetch_all"
    /\ fetch_all_set[p].state = "count"
    /\ \E x_ratelimit_remaining \in {1, 2} :
         LET t == fetch_all_set[p]
             package_versions == PartitionPage(t.items)
         IN  /\ counts' = CountPage(counts, package_versions)
             /\ fetch_all_set' = [fetch_all_set EXCEPT ![p] =
                    [state    |-> "check",
                     next_url |-> IF x_ratelimit_remaining > 1 THEN NextLink(p, t.next_url[1]) ELSE None,
                     result   |-> PVExtend(t.result, package_versions),
                     items    |-> <<>>,
                     joined   |-> FALSE]]
    /\ UNCHANGED <<input, registry, pc, all_package_data, tag_is_kept, fetch_digest_set,
                   manifest_result, kept_digests, deleted_digests, digest_tag,
                   package_version_map>>
    /\ UNCHANGED delVars
    /\ UNCHANGED <<startVars, svcVars, requests>>

----------------------------------------------------------------------------
(* select_package_versions, steps 2 to 5: one iteration of the first join loop *)

TagsOf(versions) == UNION {Range(versions[i].tags) : i \in 1..Len(versions)}

\* HashMap::insert of one value under several keys.
InsertAll(m, keys, v) == [x \in DOMAIN m \cup keys |-> IF x \in keys THEN v ELSE m[x]]

\* The versions of the listing that the per-version filter selects for deletion.
PackageVersionsToDelete(all_versions) ==
    filter_package_versions(all_versions.tagged \o all_versions.untagged,
                            input.shas_to_skip, input.tag_selection, input.cut_off,
                            input.timestamp_to_use, MatchersFrom(input.image_tags), input.now)

TaggedVersionsToKeep(all_versions, package_versions_to_delete) ==
    LET to_delete_ids == {package_versions_to_delete.tagged[i].id :
                              i \in 1..Len(package_versions_to_delete.tagged)}
    IN  SelectSeq(all_versions.tagged, LAMBDA v : v.id \notin to_delete_ids)

\* A join loop that takes every task's listing as it is, failed or not.
NeverPropagates(state) == FALSE

\* `r??`: a task that panicked (JoinError) or returned Err ends
\* select_package_versions with that error.
Propagates(state) == state # "ok"

\* A spawn loop that fetches the manifests of the kept tags only.
ManifestFetchesOfKeptTags(package_name, all_versions, tagged_versions_to_keep) ==
    {<<package_name, t>> : t \in TagsOf(tagged_versions_to_keep)}

\* Step 5: one fetch_image_manifest task per tag of every tagged version of the
\* listing.
ManifestFetchesOf(package_name, all_versions, tagged_versions_to_keep) ==
    {<<package_name, t>> : t \in TagsOf(all_versions.tagged)}

JoinFetch(p) ==
    /\ pc = "fetch_all"
    /\ fetch_all_set[p].state \in {"ok", "err", "panicked"}
    /\ ~fetch_all_set[p].joined
    /\ IF Propagates(fetch_all_set[p].state)
       THEN /\ pc' = "error"
            /\ UNCHANGED <<fetch_all_set, all_package_data, tag_is_kept, fetch_digest_set>>
       ELSE LET all_versions == fetch_all_set[p].result
                package_versions_to_delete == PackageVersionsToDelete(all_versions)
                tagged_versions_to_keep ==
                    TaggedVersionsToKeep(all_versions, package_versions_to_delete)
                kept_keys == {TagKey(p, t) : t \in TagsOf(tagged_versions_to_keep)}
                deleted_keys == {TagKey(p, t) : t \in TagsOf(package_versions_to_delete.tagged)}
            IN  /\ tag_is_kept' = InsertAll(InsertAll(tag_is_kept, kept_keys, TRUE),
                                            deleted_keys, FALSE)
                /\ fetch_digest_set' = fetch_digest_set \cup
                        ManifestFetchesOf(p, all_versions, tagged_versions_to_keep)
                /\ all_package_data' = Append(all_package_data,
                        <<p, package_versions_to_delete, all_versions>>)
                /\ fetch_all_set' = [fetch_all_set EXCEPT ![p].joined = TRUE]
                /\ pc' = IF \A q \in DOMAIN fetch_all_set : q # p => fetch_all_set[q].joined
                         THEN "fetch_digests" ELSE "fetch_all"
    /\ UNCHANGED <<input, registry, counts, manifest_result, kept_digests, deleted_digests,
                   digest_tag, package_version_map>>
    /\ UNCHANGED delVars
    /\ UNCHANGED <<startVars, svcVars, requests>>

----------------------------------------------------------------------------
(* fetch_image_manifest and one iteration of the second join loop *)

\* format!("{package_name}:{tag} ({platform})") or format!("{package_name}:{tag}")
TagStr(package_name, tag, platform_opt) ==
    IF platform_opt # None
    THEN TagKey(package_name, tag) \o <<" (", platform_opt[1], ")">>
    ELSE TagKey(package_name, tag)

\* How a manifest fetch can end: the index is read, the request cannot be sent,
\* the registry answers with a non-success status, the body cannot be read, or
\* the body is not an OCI image index with children.
ManifestStatuses == {"ok", "network_error", "non_2xx", "unreadable_body", "unknown_json"}

\* What fetch_image_manifest returns: the child digests of the tag's index, or
\* an empty list when the fetch fails or the body is not an index with children.
fetch_image_manifest(package_name, tag, status) ==
    IF status = "ok" THEN registry.manifests[TagKey(package_name, tag)] ELSE <<>>

\* A manifest fetch that returns Err whenever the fetch fails.
manifest_failure_is_err(status) == IF status = "ok" THEN "ok" ELSE "err"

\* The Result of the manifest-fetch task: every return of fetch_image_manifest
\* is Ok(..), whatever the status.
manifest_task_result(status) == "ok"

\* digest_tag.entry(digest).or_default().push(tag_str), for each pair in order
RECURSIVE PushAll(_, _, _, _)
PushAll(m, package_name, tag, package_digests) ==
    IF package_digests = <<>> THEN m
    ELSE LET digest == Head(package_digests)[1]
             tag_str == TagStr(package_name, tag, Head(package_digests)[2])
             old == IF digest \in DOMAIN m THEN m[digest] ELSE <<>>
         IN  PushAll(MapInsert(m, digest, Append(old, tag_str)), package_name, tag,
                     Tail(package_digests))

\* tag_is_kept.get(&tag_key).copied().unwrap_or(false)
IsKeptTag(m, package_name, tag) ==
    IF TagKey(package_name, tag) \in DOMAIN m THEN m[TagKey(package_name, tag)] ELSE FALSE

JoinManifest(task) ==
    /\ pc = "fetch_digests"
    /\ task \in fetch_digest_set
    /\ \E status \in ManifestStatuses :
         IF Propagates(manifest_task_result(status))
         THEN /\ pc' = "error"
              /\ UNCHANGED <<digest_tag, kept_digests, deleted_digests, manifest_result>>
         ELSE LET package_name == task[1]
                  tag == task[2]
                  package_digests == fetch_image_manifest(package_name, tag, status)
                  digests == {package_digests[i][1] : i \in 1..Len(package_digests)}
                  is_kept_tag == IsKeptTag(tag_is_kept, package_name, tag)
              IN  /\ digest_tag' = PushAll(digest_tag, package_name, tag, package_digests)
                  /\ kept_digests' = IF is_kept_tag THEN kept_digests \cup digests
                                     ELSE kept_digests
                  /\ deleted_digests' = IF is_kept_tag THEN deleted_digests
                                        ELSE deleted_digests \cup digests
                  /\ manifest_result' = MapInsert(manifest_result, task,
                         [status |-> IF status = "ok" THEN "ok" ELSE "failed",
                          digests |-> digests])
                  /\ pc' = pc
    /\ fetch_digest_set' = fetch_digest_set \ {task}
    /\ requests' = [requests EXCEPT !.manifest = @ + 1]
    /\ UNCHANGED <<input, registry, counts, fetch_all_set, all_package_data, tag_is_kept,
                   package_version_map>>
    /\ UNCHANGED delVars
    /\ UNCHANGED <<startVars, svcVars>>

----------------------------------------------------------------------------
(* The rewrite of the delete set (after both join loops) *)

\* A retain that removes nothing.
RetainAll(deleted, kept) == deleted

\* deleted_digests.retain(|digest| !kept_digests.contains(digest))
RetainNotKept(deleted, kept) == deleted \ kept

\* No untagged version is moved into the delete list.
NoDeletedTagDigests(all_versions, deleted) == <<>>

\* The untagged versions of the listing whose digest belongs to a deleted tag.
DeletedTagDigests(all_versions, deleted) ==
    SelectSeq(all_versions.untagged, LAMBDA pv : pv.name \in deleted)

\* A filter that protects nothing.
ProtectNothing(versions, kept) == versions

\* filter_map / retain: drop what a kept tag references
ProtectKept(versions, kept) == SelectSeq(versions, LAMBDA pv : pv.name \notin kept)

\* A rewrite that spares the newest versions of the untagged list as well.
RewriteSparesUntaggedToo(package_versions, all_versions, kept, deleted) ==
    [untagged |-> handle_keep_n_most_recent(
                      ProtectKept(package_versions.untagged
                                      \o DeletedTagDigests(all_versions, deleted), kept),
                      input.keep_n_most_recent, input.timestamp_to_use),
     tagged   |-> handle_keep_n_most_recent(ProtectKept(package_versions.tagged, kept),
                                            input.keep_n_most_recent, input.timestamp_to_use)]

RewriteDeleteSet(package_versions, all_versions, kept, deleted) ==
    [untagged |-> ProtectKept(package_versions.untagged \o DeletedTagDigests(all_versions, deleted),
                              kept),
     tagged   |-> handle_keep_n_most_recent(ProtectKept(package_versions.tagged, kept),
                                            input.keep_n_most_recent, input.timestamp_to_use)]

Reconcile ==
    /\ pc = "fetch_digests"
    /\ fetch_digest_set = {}
    /\ LET deleted == RetainNotKept(deleted_digests, kept_digests)
       IN  /\ deleted_digests' = deleted
           /\ package_version_map' =
                [p \in {all_package_data[i][1] : i \in 1..Len(all_package_data)} |->
                    LET d == CHOOSE i \in 1..Len(all_package_data) :
                                /\ all_package_data[i][1] = p
                                /\ \A j \in 1..Len(all_package_data) :
                                      all_package_data[j][1] = p => j <= i
                    IN  RewriteDeleteSet(all_package_data[d][2], all_package_data[d][3],
                                         kept_digests, deleted)]
    /\ pc' = "selected"
    /\ UNCHANGED <<input, registry, counts, fetch_all_set, all_package_data, tag_is_kept,
                   fetch_digest_set, manifest_result, kept_digests, digest_tag>>
    /\ UNCHANGED delVars
    /\ UNCHANGED <<startVars, svcVars, requests>>

----------------------------------------------------------------------------
(* delete_package_version: one delete task *)

\* The display names of a version: one per tag, or one "<untagged>" entry, with
\* the terminal colour codes the format strings put around the parts.
DisplayNames(package_name, package_version) ==
    IF package_version.tags = <<>>
    THEN << <<"ESC[34m">> \o package_name \o <<"ESC[0m", ":", "ESC[33m", "<untagged>", "ESC[0m">> >>
    ELSE [i \in 1..Len(package_version.tags) |->
            <<"ESC[34m">> \o package_name \o <<"ESC[0m", ":", "ESC[32m">> \o
            package_version.tags[i] \o <<"ESC[0m">>]

\* What the registry (or the network) answers to a DELETE request: a status whose
\* body can be read, a status whose body cannot be read, or no response at all.
\* The body of a 204 is never read.
Statuses == {204, 400, 422, 500}

DeleteOutcomes ==
    {o \in [kind : {"response"}, status : Statuses, body_readable : BOOLEAN] :
        o.status = 204 => o.body_readable}
    \cup [kind : {"request_failed"}, status : {0}, body_readable : {FALSE}]

ServiceFailed == [kind |-> "service_failed", status |-> 0, body_readable |-> FALSE]

UrlFailed == [kind |-> "url_failed", status |-> 0, body_readable |-> FALSE]

DryRun == [kind |-> "dry_run", status |-> 0, body_readable |-> FALSE]

\* A delete task without the early return of a dry run.
delete_package_version_no_dry_run(names, dry_run, outcome) ==
    IF outcome.kind # "response" THEN [result |-> "Err", names |-> names]
    ELSE IF outcome.status = 204 THEN [result |-> "Ok", names |-> names]
    ELSE IF outcome.body_readable THEN [result |-> "Err", names |-> names]
    ELSE [result |-> "Panic", names |-> <<>>]

\* The value a delete task ends with: "Ok" or "Err" with a list of names, or a
\* panic (response.text().await.unwrap() on a body that cannot be read).
delete_package_version(names, dry_run, outcome) ==
    IF dry_run THEN [result |-> "Ok", names |-> <<>>]
    ELSE IF outcome.kind # "response" THEN [result |-> "Err", names |-> names]
    ELSE IF outcome.status = 204 THEN [result |-> "Ok", names |-> names]
    ELSE IF outcome.body_readable THEN [result |-> "Err", names |-> names]
    ELSE [result |-> "Panic", names |-> <<>>]

----------------------------------------------------------------------------
(* select_package_versions_to_delete: the two-pass allocation *)

NewDeleteTask(package_name, version, kind) ==
    [package_name |-> package_name, version |-> version, kind |-> kind, state |-> "spawned"]

\* The inner `for version in ...` loop: spawn while requests are allocatable.
RECURSIVE SpawnVersions(_, _, _, _)
SpawnVersions(package_name, versions, kind, acc) ==
    IF versions = <<>> THEN acc
    ELSE IF acc.allocatable_requests > 0
         THEN SpawnVersions(package_name, Tail(versions), kind,
                  [set |-> Append(acc.set, NewDeleteTask(package_name, Head(versions), kind)),
                   allocatable_requests |-> acc.allocatable_requests - 1])
         ELSE acc

\* A single pass that spawns, package by package, the untagged and then the
\* tagged versions.
RECURSIVE PassBothLists(_, _, _, _)
PassBothLists(order, map, kind, acc) ==
    IF order = <<>> \/ kind = "tagged" THEN acc
    ELSE PassBothLists(Tail(order), map, kind,
              SpawnVersions(Head(order), map[Head(order)].tagged, "tagged",
                  SpawnVersions(Head(order), map[Head(order)].untagged, "untagged", acc)))

\* package_version_map.iter().for_each(...): one pass over the packages, over
\* their untagged or their tagged lists.
RECURSIVE Pass(_, _, _, _)
Pass(order, map, kind, acc) ==
    IF order = <<>> THEN acc
    ELSE IF acc.allocatable_requests = 0 THEN Pass(Tail(order), map, kind, acc)
    ELSE Pass(Tail(order), map, kind,
              SpawnVersions(Head(order), map[Head(order)][kind], kind, acc))

\* The snapshot of the budget and the first pass.  The iteration order of the
\* HashMap is arbitrary and the same in both passes.
FirstPass ==
    /\ pc = "selected"
    /\ \E order \in Orderings(DOMAIN package_version_map) :
         LET initial_allocatable_requests == counts.remaining_requests
             acc == Pass(order, package_version_map, "untagged",
                         [set |-> <<>>, allocatable_requests |-> initial_allocatable_requests])
         IN  /\ executor' = [initial_allocatable_requests |-> initial_allocatable_requests,
                             allocatable_requests |-> acc.allocatable_requests,
                             order |-> order]
             /\ delete_set' = acc.set
    /\ pc' = "first_pass_done"
    /\ UNCHANGED <<input, registry, delete_requests, join_result, deleted_packages,
                   failed_packages>>
    /\ UNCHANGED selVars
    /\ UNCHANGED <<startVars, svcVars, requests>>

\* (counts.rate_limit_reset - Utc::now()).to_std().unwrap()
DurationIsNegative(rate_limit_reset, now) == rate_limit_reset < now

\* The time until the reset is computed (a negative duration panics); then the
\* second pass runs unless the budget is used up.
SecondPass ==
    /\ pc = "first_pass_done"
    /\ IF DurationIsNegative(counts.rate_limit_reset, input.now)
       THEN /\ pc' = "panicked"
            /\ UNCHANGED <<executor, delete_set>>
       ELSE /\ pc' = "join"
            /\ IF executor.allocatable_requests = 0
               THEN UNCHANGED <<executor, delete_set>>
               ELSE LET acc == Pass(executor.order, package_version_map, "tagged",
                                    [set |-> delete_set,
                                     allocatable_requests |-> executor.allocatable_requests])
                    IN  /\ executor' = [executor EXCEPT
                                            !.allocatable_requests = acc.allocatable_requests]
                        /\ delete_set' = acc.set
    /\ UNCHANGED <<input, registry, delete_requests, join_result, deleted_packages,
                   failed_packages>>
    /\ UNCHANGED selVars
    /\ UNCHANGED <<startVars, svcVars, requests>>

----------------------------------------------------------------------------
(* The delete tasks and the join loop of delete_package_versions *)

\* A spawned task sends its DELETE request.
DeleteSend(i) ==
    /\ pc \in {"first_pass_done", "join"}
    /\ delete_set[i].state = "spawned"
    /\ ~input.dry_run
    /\ delete_set' = [delete_set EXCEPT ![i].state = "sent"]
    /\ delete_requests' = delete_requests \cup {i}
    /\ requests' = [requests EXCEPT !.delete_version = @ + 1, !.via_service = @ + 1]
    /\ UNCHANGED <<input, registry, pc, executor, join_result, deleted_packages, failed_packages>>
    /\ UNCHANGED selVars
    /\ UNCHANGED <<startVars, svcVars>>

\* The answers a task in the given state can get.
OutcomesOf(task, dry_run) ==
    IF dry_run THEN {DryRun}
    ELSE IF task.state = "sent" THEN DeleteOutcomes
    ELSE {UrlFailed, ServiceFailed}

\* set.join_next(): a task ends and its result is sorted into the two lists.
JoinDelete(i) ==
    /\ pc = "join"
    /\ delete_set[i].state \in {"spawned", "sent"}
    /\ \E outcome \in OutcomesOf(delete_set[i], input.dry_run) :
         LET task == delete_set[i]
             r == delete_package_version(DisplayNames(task.package_name, task.version),
                                         input.dry_run, outcome)
         IN  /\ delete_set' = [delete_set EXCEPT ![i].state = "joined"]
             /\ join_result' = Some([task |-> i, outcome |-> outcome, result |-> r.result])
             /\ deleted_packages' = IF r.result = "Ok" THEN deleted_packages \o r.names
                                    ELSE deleted_packages
             /\ failed_packages' = IF r.result = "Err" THEN failed_packages \o r.names
                                   ELSE failed_packages
    /\ UNCHANGED <<input, registry, pc, executor, delete_requests>>
    /\ UNCHANGED selVars
    /\ UNCHANGED <<startVars, svcVars, requests>>

\* The join loop ends: delete_package_versions returns both lists.
ReturnLists ==
    /\ pc = "join"
    /\ \A i \in 1..Len(delete_set) : delete_set[i].state = "joined"
    /\ pc' = "done"
    /\ UNCHANGED <<input, registry, executor, delete_set, delete_requests, join_result,
                   deleted_packages, failed_packages>>
    /\ UNCHANGED selVars
    /\ UNCHANGED <<startVars, svcVars, requests>>

----------------------------------------------------------------------------
(* The selection pipeline on its own *)

InitSelect ==
    /\ input \in Inputs
    /\ registry \in Registries
    /\ pc = "fetch_all"
    /\ counts \in [remaining_requests : {0, 3}, package_versions : {0},
                   rate_limit_reset : {MaxTime + 1}]
    /\ InitSelectVars
    /\ InitDeleteVars
    /\ InitStartVars

NextSelect ==
    \/ \E p \in DOMAIN fetch_all_set : PageRequest(p)
    \/ \E p \in DOMAIN fetch_all_set : PageResponse(p)
    \/ \E p \in DOMAIN fetch_all_set : PageCount(p)
    \/ \E p \in DOMAIN fetch_all_set : JoinFetch(p)
    \/ \E task \in fetch_digest_set : JoinManifest(task)
    \/ Reconcile

SpecSelect == InitSelect /\ [][NextSelect]_vars

----------------------------------------------------------------------------
(* The deletion executor on its own *)

UntaggedPool(p) ==
    IF p = PkgA THEN << PV(3, Sha(3), <<>>, 0, None), PV(4, Sha(4), <<>>, 0, None),
                        PV(7, Sha(6), <<>>, 0, None), PV(9, Sha(6), <<>>, 0, None) >>
    ELSE << PV(6, Sha(3), <<>>, 0, None), PV(8, Sha(4), <<>>, 0, None),
            PV(10, Sha(6), <<>>, 0, None), PV(11, Sha(6), <<>>, 0, None) >>

TaggedPool(p) ==
    IF p = PkgA THEN << PV(2, Sha(2), <<TagV2, TagDev>>, 1, None) >>
    ELSE << PV(5, Sha(5), <<TagV1>>, 0, None) >>

DeleteMaps ==
    {[p \in Range(Packages) |->
        [untagged |-> SubSeq(UntaggedPool(p), 1, IF p = PkgA THEN ua ELSE ub),
         tagged   |-> SubSeq(TaggedPool(p), 1, IF p = PkgA THEN ta ELSE tb)]] :
        ua \in 0..MaxUntagged, ub \in 0..MaxUntagged, ta \in 0..1, tb \in 0..1}

DefaultInput ==
    [image_tags |-> <<>>, shas_to_skip |-> <<>>, keep_n_most_recent |-> 0,
     tag_selection |-> "Both", cut_off |-> 1, timestamp_to_use |-> "UpdatedAt",
     dry_run |-> FALSE, now |-> MaxTime, token |-> "ClassicPersonalAccess",
     image_names |-> Packages]

InitDelete ==
    /\ \E dry_run \in BOOLEAN : input = [DefaultInput EXCEPT !.dry_run = dry_run]
    /\ registry = [versions |-> VersionsOf(None), manifests |-> ManifestsOf(<<>>, <<>>, <<>>)]
    /\ pc = "selected"
    /\ counts \in [remaining_requests : 0..MaxAllocatable, package_versions : {0},
                   rate_limit_reset : {MaxTime - 1, MaxTime + 1}]
    /\ fetch_all_set = [p \in Range(Packages) |-> [NewFetchTask EXCEPT !.state = "ok", !.joined = TRUE]]
    /\ all_package_data = <<>>
    /\ tag_is_kept = EmptyMap
    /\ fetch_digest_set = {}
    /\ manifest_result = EmptyMap
    /\ kept_digests = {}
    /\ deleted_digests = {}
    /\ digest_tag = EmptyMap
    /\ package_version_map \in DeleteMaps
    /\ InitDeleteVars
    /\ InitStartVars

NextDelete ==
    \/ FirstPass
    \/ SecondPass
    \/ \E i \in 1..Len(delete_set) : DeleteSend(i)
    \/ \E i \in 1..Len(delete_set) : JoinDelete(i)
    \/ ReturnLists

SpecDelete == InitDelete /\ [][NextDelete]_vars

\* The executor under a scheduler that runs every spawned task and a registry
\* that answers every request: some step of the executor or of a task is taken
\* as long as one is possible.
SpecDeleteFair == SpecDelete /\ WF_vars(NextDelete)

----------------------------------------------------------------------------
(* Start-up: the rate-limit probe, then select_packages *)

PkgC == <<"c">>

\* The packages the account owns, in the order the API lists them.
AccountPackages == <<PkgA, PkgB, PkgC>>

\* A name the account has no package for.
PkgD == <<"d">>

\* Token kinds with the image names they are run with.
StartChoices ==
    { <<"Temporal", <<PkgA>> >>,
      <<"Temporal", <<PkgA, PkgD>> >>,
      <<"Temporal", <<PkgA, <<"b", "*">>, <<"!", "c">> >> >>,
      <<"ClassicPersonalAccess", << <<"*">>, <<"!", "c">> >> >>,
      <<"Oauth", << <<"*">>, <<"!", "c">> >> >> }

\* What the rate-limit probe can come back with.  The scope header is the set of
\* scope names it lists.
RateLimitResponse(status, x_oauth_scopes, x_ratelimit_remaining, x_ratelimit_reset) ==
    [kind |-> "response", status |-> status, x_oauth_scopes |-> x_oauth_scopes,
     x_ratelimit_remaining |-> x_ratelimit_remaining, x_ratelimit_reset |-> x_ratelimit_reset]

RateLimitResponses ==
    {[kind |-> "error"]} \cup
    {RateLimitResponse(401, scopes, 5, MaxTime + 1) :
        scopes \in {None, Some({"repo", "delete:packages"})}} \cup
    {RateLimitResponse(200, Some({"repo", "delete:packages"}), remaining, reset) :
        remaining \in {3, 5}, reset \in {MaxTime - 1, MaxTime + 1}} \cup
    {RateLimitResponse(200, scopes, 5, MaxTime + 1) : scopes \in {None, Some({"repo"})}}

\* The arms of `match self.token` that check the scope header.
ScopeIsChecked(token) == token = "ClassicPersonalAccess"

\* x_oauth_scopes.is_none() || !x_oauth_scopes.unwrap().contains("delete:packages")
LacksDeleteScope(x_oauth_scopes) ==
    x_oauth_scopes = None \/ "delete:packages" \notin x_oauth_scopes[1]

Aborted(reason, image_name) == Some([reason |-> reason, image_name |-> image_name])

\* PackagesClient::fetch_rate_limit and the construction of Counts from its result.
FetchRateLimit ==
    /\ pc = "start"
    /\ \E response \in RateLimitResponses :
         /\ rate_limit' = Some(response)
         /\ IF response.kind = "error"
            THEN /\ pc' = "aborted"
                 /\ abort' = Aborted("rate_limit_failed", <<>>)
                 /\ requests' = [requests EXCEPT !.rate_limit = @ + 1]
                 /\ UNCHANGED counts
            ELSE IF response.status = 401
            THEN /\ pc' = "exited"
                 /\ abort' = Aborted("unauthorized", <<>>)
                 /\ requests' = [requests EXCEPT !.rate_limit = @ + 1]
                 /\ UNCHANGED counts
            ELSE IF ScopeIsChecked(input.token) /\ LacksDeleteScope(response.x_oauth_scopes)
            THEN /\ pc' = "exited"
                 /\ abort' = Aborted("missing_scope", <<>>)
                 /\ requests' = [requests EXCEPT !.rate_limit = @ + 1]
                 /\ UNCHANGED counts
            ELSE /\ pc' = "fetch_packages"
                 /\ counts' = [remaining_requests |-> response.x_ratelimit_remaining,
                               rate_limit_reset   |-> response.x_ratelimit_reset,
                               package_versions   |-> 0]
                 /\ requests' = [requests EXCEPT !.rate_limit = @ + 1,
                                    !.remaining_at_start = response.x_ratelimit_remaining]
                 /\ UNCHANGED abort
    /\ UNCHANGED <<input, registry, fetch_all_set, all_package_data, tag_is_kept,
                   fetch_digest_set, manifest_result, kept_digests, deleted_digests,
                   digest_tag, package_version_map, owner, package_fetch>>
    /\ UNCHANGED delVars
    /\ UNCHANGED svcVars

\* A check that accepts every image name.
AcceptsEveryName(image_name) == FALSE

\* image_name.contains('!') || image_name.contains('*')
HasFilterSyntax(image_name) == \E i \in 1..Len(image_name) : image_name[i] \in {"!", "*"}

\* The head of fetch_packages: with a Temporal token every image name is checked,
\* in order, before the packages are fetched by name; otherwise they are listed.
FetchPackages ==
    /\ pc = "fetch_packages"
    /\ IF input.token = "Temporal"
       THEN LET invalid == {i \in 1..Len(input.image_names) :
                               HasFilterSyntax(input.image_names[i])}
            IN  IF invalid # {}
                THEN /\ pc' = "aborted"
                     /\ abort' = Aborted("invalid_image_name",
                            input.image_names[CHOOSE i \in invalid : \A j \in invalid : i <= j])
                     /\ UNCHANGED package_fetch
                ELSE /\ pc' = "fetch_individual_packages"
                     /\ package_fetch' = [NoPackageFetch EXCEPT !.names = input.image_names]
                     /\ UNCHANGED abort
       ELSE /\ pc' = "list_packages"
            /\ package_fetch' = [NoPackageFetch EXCEPT !.next_url = Some(1)]
            /\ UNCHANGED abort
    /\ UNCHANGED <<input, registry, owner, requests, rate_limit>>
    /\ UNCHANGED selVars
    /\ UNCHANGED delVars
    /\ UNCHANGED svcVars

\* `fut.await` of `for fut in futures`: the futures were only created by the
\* first loop; the future of the next name starts to run when the loop awaits
\* it, which is after the future before it has returned.
FetchIndividualPackageStart ==
    /\ pc = "fetch_individual_packages"
    /\ package_fetch.names # <<>>
    /\ package_fetch.in_flight = {}
    /\ package_fetch' = [package_fetch EXCEPT !.in_flight = {Head(package_fetch.names)}]
    /\ UNCHANGED <<input, registry, pc, counts, owner, abort, rate_limit, requests,
                   fetch_all_set, all_package_data, tag_is_kept, fetch_digest_set,
                   manifest_result, kept_digests, deleted_digests, digest_tag,
                   package_version_map>>
    /\ UNCHANGED delVars
    /\ UNCHANGED svcVars

\* The rest of one iteration of `for fut in futures`: fetch_individual_package
\* for the awaited name.  The request is sent without a budget check; once a
\* response arrived, remaining_requests is decremented (decrementing 0 panics or
\* wraps).  Any Err ends fetch_packages in its expect().
FetchIndividualPackage ==
    /\ pc = "fetch_individual_packages"
    /\ package_fetch.names # <<>>
    /\ package_fetch.in_flight = {Head(package_fetch.names)}
    /\ LET package_name == Head(package_fetch.names)
       IN  \E outcome \in {"service_failed", "request_failed", "bad_json"} \cup
                          (IF package_name \in Range(AccountPackages) THEN {"ok"} ELSE {}),
              overflow_checks \in BOOLEAN :
             /\ requests' = IF outcome = "service_failed" THEN requests
                            ELSE [requests EXCEPT !.fetch_package = @ + 1, !.via_service = @ + 1]
             /\ IF outcome \in {"service_failed", "request_failed"}
                THEN /\ pc' = "aborted"
                     /\ abort' = Aborted("fetch_packages_failed", <<>>)
                     /\ UNCHANGED <<counts, package_fetch>>
                ELSE IF counts.remaining_requests = 0 /\ overflow_checks
                THEN /\ pc' = "aborted"
                     /\ abort' = Aborted("overflow", <<>>)
                     /\ UNCHANGED <<counts, package_fetch>>
                ELSE /\ counts' = [counts EXCEPT !.remaining_requests =
                                      IF @ = 0 THEN UsizeMax ELSE @ - 1]
                     /\ IF outcome = "ok"
                        THEN /\ package_fetch' = [package_fetch EXCEPT
                                    !.names = Tail(@), !.packages = Append(@, package_name),
                                    !.in_flight = {}]
                             /\ UNCHANGED <<pc, abort>>
                        ELSE /\ pc' = "aborted"
                             /\ abort' = Aborted("fetch_packages_failed", <<>>)
                             /\ UNCHANGED package_fetch
    /\ UNCHANGED <<input, registry, owner, rate_limit, fetch_all_set, all_package_data,
                   tag_is_kept, fetch_digest_set, manifest_result, kept_digests,
                   deleted_digests, digest_tag, package_version_map>>
    /\ UNCHANGED delVars
    /\ UNCHANGED svcVars

PackagePages == (Len(AccountPackages) + PerPage - 1) \div PerPage

PackagePageItems(k) ==
    SubSeq(AccountPackages, (k - 1) * PerPage + 1, Min(k * PerPage, Len(AccountPackages)))

\* One iteration of the loop of fetch_packages_with_pagination.
ListPackagesPage ==
    /\ pc = "list_packages"
    /\ package_fetch.next_url # None
    /\ IF counts.package_versions > counts.remaining_requests
       THEN /\ package_fetch' = [package_fetch EXCEPT !.next_url = None]
            /\ UNCHANGED <<pc, abort, requests>>
       ELSE \E outcome \in {"ok", "service_failed", "request_failed", "bad_json"},
               x_ratelimit_remaining \in {1, 2} :
              /\ requests' = IF outcome = "service_failed" THEN requests
                             ELSE [requests EXCEPT !.list_packages = @ + 1, !.via_service = @ + 1]
              /\ IF outcome = "ok"
                 THEN LET k == package_fetch.next_url[1]
                      IN  /\ package_fetch' = [package_fetch EXCEPT
                                 !.packages = @ \o PackagePageItems(k),
                                 !.next_url = IF x_ratelimit_remaining > 1 /\ k < PackagePages
                                              THEN Some(k + 1) ELSE None]
                          /\ UNCHANGED <<pc, abort>>
                 ELSE /\ pc' = "aborted"
                      /\ abort' = Aborted("fetch_packages_failed", <<>>)
                      /\ UNCHANGED package_fetch
    /\ UNCHANGED <<input, registry, owner, rate_limit>>
    /\ UNCHANGED selVars
    /\ UNCHANGED delVars
    /\ UNCHANGED svcVars

\* A package selector that also returns what a negative pattern matches.
select_despite_negative_match(packages, matchers) ==
    SelectSeq(packages, LAMBDA name : matchers.positive = <<>> \/ positive_match(matchers, name))

\* select_packages::filter_by_matchers
RECURSIVE filter_packages_by_matchers(_, _)
filter_packages_by_matchers(packages, matchers) ==
    IF packages = <<>> THEN <<>>
    ELSE LET name == Head(packages)
             rest == filter_packages_by_matchers(Tail(packages), matchers)
         IN  IF negative_match(matchers, name) THEN rest
             ELSE IF matchers.positive = <<>> THEN <<name>> \o rest
             ELSE IF positive_match(matchers, name) THEN <<name>> \o rest
             ELSE rest

\* The tail of fetch_packages (the owner is stored), the filter of select_packages,
\* and the spawn of one list_package_versions task per selected package.
SelectPackages ==
    /\ \/ pc = "fetch_individual_packages" /\ package_fetch.names = <<>>
       \/ pc = "list_packages" /\ package_fetch.next_url = None
    /\ owner' = IF package_fetch.packages # <<>> THEN Some("owner") ELSE owner
    /\ LET selected_packages ==
               filter_packages_by_matchers(package_fetch.packages,
                                           MatchersFrom(input.image_names))
       IN  /\ fetch_all_set' = [p \in Range(selected_packages) |-> NewFetchTask]
           /\ pc' = IF selected_packages = <<>> THEN "fetch_digests" ELSE "fetch_all"
    /\ UNCHANGED <<input, registry, counts, all_package_data, tag_is_kept, fetch_digest_set,
                   manifest_result, kept_digests, deleted_digests, digest_tag,
                   package_version_map, package_fetch, abort, rate_limit, requests>>
    /\ UNCHANGED delVars
    /\ UNCHANGED svcVars

NextStart ==
    \/ FetchRateLimit
    \/ FetchPackages
    \/ FetchIndividualPackageStart
    \/ FetchIndividualPackage
    \/ ListPackagesPage
    \/ SelectPackages

----------------------------------------------------------------------------
(* Calls of the pure functions of the selection *)

\* The versions handed to handle_keep_n_most_recent: distinct, with equal and
\* with different timestamps, in every order.
KeepPool ==
    { PV(1, Sha(1), <<TagV1>>, 0, None), PV(2, Sha(2), <<TagV2>>, 0, Some(2)),
      PV(3, Sha(3), <<TagDev>>, 1, None), PV(4, Sha(4), <<TagV1, TagV2>>, 1, Some(1)) }

KeepNCalls ==
    UNION {{[fn |-> "handle_keep_n_most_recent", package_versions |-> vs,
             keep_n_most_recent |-> n, timestamp_to_use |-> t, ret |-> None] :
                vs \in Orderings(S), n \in 0..MaxKeepN, t \in {"CreatedAt", "UpdatedAt"}} :
           S \in {T \in SUBSET KeepPool : Cardinality(T) <= MaxVersions}}

TagFilterChoices ==
    ImageTagChoices \cup
    { << <<"v", "*">> >>, << <<"!", "d", "*">> >>, << <<"v", "2">>, <<"!", "d", "e", "v">> >>,
      << <<"v", "?">>, <<"d", "e", "v">> >>, << <<"!", "v", "1">>, <<"!", "x">> >> }

TagLists == { <<TagV1>>, <<TagV2>>, <<TagDev>>, <<TagV2, TagDev>>, <<TagV1, TagV2>>,
              <<TagV1, TagV2, TagDev>> }

FilterByMatchersCalls ==
    {[fn |-> "filter_by_matchers", image_tags |-> f, package_name |-> p,
      package_version |-> PV(1, Sha(1), tags, 0, None), ret |-> None] :
        f \in TagFilterChoices, tags \in TagLists, p \in {PkgA}}

\* Versions with and without tags for filter_by_tag_selection.
TagSelectionCalls ==
    {[fn |-> "filter_by_tag_selection", image_tags |-> f, tag_selection |-> sel,
      package_name |-> PkgA, package_version |-> PV(1, Sha(1), tags, 0, None), ret |-> None] :
        f \in TagFilterChoices, tags \in TagLists \cup {<<>>},
        sel \in {"Tagged", "Untagged", "Both"}}

\* Versions created and updated at every time up to `now`, with and without an
\* update time, against every cut-off duration up to `now`.
CutoffCalls ==
    {[fn |-> "older_than_cutoff", package_version |-> PV(1, Sha(1), <<>>, c, u),
      cut_off |-> d, timestamp_to_use |-> t, now |-> MaxTime, ret |-> None] :
        c \in 0..MaxTime, u \in {None} \cup {Some(x) : x \in 0..MaxTime},
        d \in 0..MaxTime, t \in {"CreatedAt", "UpdatedAt"}}

\* The packages handed to the package selector, in every fetch order, and the
\* package-name filters.
PackageNamePool == {PkgA, PkgB, PkgC, <<"a", "b">>}

PackageNameFilters ==
    { <<>>, << <<"!", "c">> >>, << <<"a", "*">> >>, << <<"a", "*">>, <<"!", "a", "b">> >>,
      << <<"*">>, <<"!", "a", "*">> >>, << <<"?">> >>, << <<"!", "a">>, <<"!", "b">> >>,
      << <<"b">>, <<"c">>, <<"!", "c">> >> }

SelectPackagesCalls ==
    UNION {{[fn |-> "select_packages::filter_by_matchers", packages |-> ps, image_names |-> f,
             ret |-> None] : ps \in Orderings(S), f \in PackageNameFilters} :
           S \in {T \in SUBSET PackageNamePool : Cardinality(T) <= MaxVersions}}

\* The filter strings handed to Matchers::from and the strings probed against
\* the result.
FilterPool ==
    { <<"v", "1">>, <<"v", "*">>, <<"v", "?">>, <<"!", "v", "1">>, <<"!", "v", "*">>, <<"!">>, <<>> }

RECURSIVE SeqsUpTo(_, _)
SeqsUpTo(S, n) ==
    IF n = 0 THEN {<<>>}
    ELSE LET shorter == SeqsUpTo(S, n - 1)
         IN  shorter \cup {Append(q, x) : q \in shorter, x \in S}

ProbeValues == { <<>>, <<"v">>, <<"v", "1">>, <<"v", "1", "2">>, <<"x", "v", "1">> }

MatchersCalls ==
    {[fn |-> "Matchers::from", filters |-> f, value |-> v, ret |-> None] :
        f \in SeqsUpTo(FilterPool, MaxFilters), v \in ProbeValues}

\* A link header is the list of its comma-separated parts; a part is the words of
\* its URL and the word of its rel parameter.
LinkUrl(package_name, page) == <<"packages", "container", package_name, "versions", page>>

LinkParts ==
    {[url |-> LinkUrl(name, page), rel |-> rel] :
        name \in {"a", "last"}, page \in {"2", "3"}, rel \in {"next", "prev", "first", "last"}}

\* str::contains on a part of the header: the word is in the URL or is the rel.
PartContains(part, word) == part.rel = word \/ word \in Range(part.url)

\* GithubHeaders::parse_link_header over the parts of the header.
RECURSIVE parse_link_header(_)
parse_link_header(parts) ==
    IF parts = <<>> THEN [panicked |-> FALSE, url |-> None]
    ELSE LET part == Head(parts)
         IN  IF PartContains(part, "prev") THEN parse_link_header(Tail(parts))
             ELSE IF PartContains(part, "first") THEN parse_link_header(Tail(parts))
             ELSE IF PartContains(part, "last") THEN parse_link_header(Tail(parts))
             ELSE IF PartContains(part, "next") THEN [panicked |-> FALSE, url |-> Some(part.url)]
             ELSE [panicked |-> TRUE, url |-> None]

\* GithubHeaders::next_link
next_link(link) == IF link # None THEN parse_link_header(link[1]) ELSE [panicked |-> FALSE, url |-> None]

NextLinkCalls ==
    {[fn |-> "next_link", link |-> l, ret |-> None] :
        l \in {None} \cup {Some(parts) : parts \in SeqsUpTo(LinkParts, MaxLinks)}}

\* The listings handed to filter_package_versions: tagged and untagged versions,
\* old and new, in every order.
FilterPoolVersions ==
    { PV(1, Sha(1), <<TagV1>>, 0, None), PV(2, Sha(2), <<TagV2, TagDev>>, 1, Some(MaxTime - 1)),
      PV(3, Sha(3), <<>>, 0, None), PV(4, Sha(4), <<>>, MaxTime - 1, None) }

FilterPackageVersionsCalls ==
    UNION {{[fn |-> "filter_package_versions", package_versions |-> vs, shas_to_skip |-> skip,
             tag_selection |-> sel, cut_off |-> 1, timestamp_to_use |-> t, image_tags |-> f,
             now |-> MaxTime, ret |-> None] :
                vs \in Orderings(S), skip \in {<<>>, <<Sha(1)>>, <<Sha(3)>>},
                sel \in {"Tagged", "Untagged", "Both"}, t \in {"CreatedAt", "UpdatedAt"},
                f \in ImageTagChoices} :
           S \in {T \in SUBSET FilterPoolVersions : Cardinality(T) <= MaxVersions}}

ReturnKeepN ==
    /\ pc = "pure"
    /\ call.fn = "handle_keep_n_most_recent"
    /\ call.ret = None
    /\ call' = [call EXCEPT !.ret =
           Some(handle_keep_n_most_recent(call.package_versions, call.keep_n_most_recent,
                                          call.timestamp_to_use))]
    /\ UNCHANGED <<input, registry, pc, requests, service>>
    /\ UNCHANGED selVars
    /\ UNCHANGED delVars
    /\ UNCHANGED startVars

ReturnFilterByMatchers ==
    /\ pc = "pure"
    /\ call.fn = "filter_by_matchers"
    /\ call.ret = None
    /\ LET arm == filter_by_matchers(MatchersFrom(call.image_tags), call.package_version)
       IN  call' = [call EXCEPT !.ret = Some(
               [arm |-> arm,
                log |-> filter_by_matchers_log(arm, call.package_name, call.package_version)])]
    /\ UNCHANGED <<input, registry, pc, requests, service>>
    /\ UNCHANGED selVars
    /\ UNCHANGED delVars
    /\ UNCHANGED startVars

ReturnFilterByTagSelection ==
    /\ pc = "pure"
    /\ call.fn = "filter_by_tag_selection"
    /\ call.ret = None
    /\ call' = [call EXCEPT !.ret =
           Some(filter_by_tag_selection(MatchersFrom(call.image_tags), call.tag_selection,
                                        call.package_version))]
    /\ UNCHANGED <<input, registry, pc, requests, service>>
    /\ UNCHANGED selVars
    /\ UNCHANGED delVars
    /\ UNCHANGED startVars

ReturnOlderThanCutoff ==
    /\ pc = "pure"
    /\ call.fn = "older_than_cutoff"
    /\ call.ret = None
    /\ call' = [call EXCEPT !.ret =
           Some(older_than_cutoff(call.package_version, call.cut_off, call.timestamp_to_use,
                                  call.now))]
    /\ UNCHANGED <<input, registry, pc, requests, service>>
    /\ UNCHANGED selVars
    /\ UNCHANGED delVars
    /\ UNCHANGED startVars

ReturnSelectPackages ==
    /\ pc = "pure"
    /\ call.fn = "select_packages::filter_by_matchers"
    /\ call.ret = None
    /\ call' = [call EXCEPT !.ret =
           Some(filter_packages_by_matchers(call.packages, MatchersFrom(call.image_names)))]
    /\ UNCHANGED <<input, registry, pc, requests, service>>
    /\ UNCHANGED selVars
    /\ UNCHANGED delVars
    /\ UNCHANGED startVars

\* Matchers::from, then is_empty, positive_match and negative_match on the result.
ReturnMatchers ==
    /\ pc = "pure"
    /\ call.fn = "Matchers::from"
    /\ call.ret = None
    /\ LET matchers == MatchersFrom(call.filters)
       IN  call' = [call EXCEPT !.ret = Some(
               [matchers |-> matchers,
                is_empty |-> is_empty(matchers),
                positive_match |-> positive_match(matchers, call.value),
                negative_match |-> negative_match(matchers, call.value)])]
    /\ UNCHANGED <<input, registry, pc, requests, service>>
    /\ UNCHANGED selVars
    /\ UNCHANGED delVars
    /\ UNCHANGED startVars

ReturnNextLink ==
    /\ pc = "pure"
    /\ call.fn = "next_link"
    /\ call.ret = None
    /\ call' = [call EXCEPT !.ret = Some(next_link(call.link))]
    /\ UNCHANGED <<input, registry, pc, requests, service>>
    /\ UNCHANGED selVars
    /\ UNCHANGED delVars
    /\ UNCHANGED startVars

\* filter_package_versions: the two lists it returns, and the versions that
\* its loop hands to filter_by_tag_selection.
ReturnFilterPackageVersions ==
    /\ pc = "pure"
    /\ call.fn = "filter_package_versions"
    /\ call.ret = None
    /\ call' = [call EXCEPT !.ret = Some(
           [lists |-> filter_package_versions(call.package_versions, call.shas_to_skip,
                          call.tag_selection, call.cut_off, call.timestamp_to_use,
                          MatchersFrom(call.image_tags), call.now),
            classified |-> SelectSeq(call.package_versions, LAMBDA v :
                          /\ ~contains_shas_to_skip(call.shas_to_skip, v)
                          /\ older_than_cutoff(v, call.cut_off, call.timestamp_to_use, call.now))])]
    /\ UNCHANGED <<input, registry, pc, requests, service>>
    /\ UNCHANGED selVars
    /\ UNCHANGED delVars
    /\ UNCHANGED startVars

InitPure ==
    /\ input = DefaultInput
    /\ registry = [versions |-> VersionsOf(None), manifests |-> ManifestsOf(<<>>, <<>>, <<>>)]
    /\ pc = "pure"
    /\ counts = [remaining_requests |-> 0, package_versions |-> 0, rate_limit_reset |-> 0]
    /\ fetch_all_set = EmptyMap
    /\ all_package_data = <<>>
    /\ tag_is_kept = EmptyMap
    /\ fetch_digest_set = {}
    /\ manifest_result = EmptyMap
    /\ kept_digests = {}
    /\ deleted_digests = {}
    /\ digest_tag = EmptyMap
    /\ package_version_map = EmptyMap
    /\ InitDeleteVars
    /\ owner = None
    /\ package_fetch = NoPackageFetch
    /\ abort = None
    /\ rate_limit = None
    /\ requests = NoRequests
    /\ service = NoService
    /\ call \in KeepNCalls \cup FilterByMatchersCalls \cup TagSelectionCalls \cup CutoffCalls
                \cup SelectPackagesCalls \cup MatchersCalls \cup NextLinkCalls
                \cup FilterPackageVersionsCalls

NextPure ==
    \/ ReturnKeepN
    \/ ReturnFilterByMatchers
    \/ ReturnFilterByTagSelection
    \/ ReturnOlderThanCutoff
    \/ ReturnSelectPackages
    \/ ReturnMatchers
    \/ ReturnNextLink
    \/ ReturnFilterPackageVersions

SpecPure == InitPure /\ [][NextPure]_vars

----------------------------------------------------------------------------
(* One rate-limited service: Arc<Mutex<ConcurrencyLimit<RateLimit<Client>>>> *)

ServiceKinds ==
    {"fetch_package", "list_packages", "list_package_versions", "delete_package_versions"}

\* The `num` handed to rate_limit(num, ONE_MINUTE) for each service.
RateLimitNum(kind) ==
    IF kind = "delete_package_versions"
    THEN MAX_POINTS_PER_ENDPOINT_PER_MINUTE \div DELETE_REQUEST_POINTS
    ELSE MAX_POINTS_PER_ENDPOINT_PER_MINUTE \div GET_REQUEST_POINTS

Tasks == 1..MaxTasks

\* Permits of the concurrency limit that are taken: by requests in flight (of
\* these tasks and of earlier ones) and by the service between ready() and call().
PermitsInUse(svc) ==
    svc.others_in_flight
        + Cardinality({t \in Tasks : svc.phase[t] \in {"permitted", "in_flight"}})

\* A concurrency limit that never runs out of permits.
PermitAlwaysAvailable(svc) == TRUE

\* ConcurrencyLimit::poll_ready: a permit of the semaphore can be acquired.
PermitAvailable(svc) == PermitsInUse(svc) < MAX_CONCURRENCY

\* A rate limit that is always ready.
RateAlwaysReady(rate) == TRUE

\* RateLimit::poll_ready: Ready, or Limited with the sleep until the window's end over.
RateReady(rate) == rate.state = "Ready" \/ rate.elapsed

\* The service under study starts in a state a run can have brought it to: some
\* requests of earlier tasks still in flight, some of the window's budget used.
ServicesOf(kind) ==
    {[kind |-> kind, mutex |-> 0, phase |-> [t \in Tasks |-> "idle"],
      others_in_flight |-> others,
      rate |-> [state |-> "Ready", rem |-> RateLimitNum(kind) - used, elapsed |-> FALSE],
      window_sent |-> used] :
        others \in {0, MAX_CONCURRENCY - 2}, used \in {0, RateLimitNum(kind) - 2}}

Services == UNION {ServicesOf(kind) : kind \in ServiceKinds}

UnchangedRun ==
    /\ UNCHANGED <<input, registry, pc, requests, call>>
    /\ UNCHANGED selVars
    /\ UNCHANGED delVars
    /\ UNCHANGED startVars

\* service.lock().await
Lock(t) ==
    /\ pc = "service"
    /\ service.phase[t] = "idle"
    /\ service.mutex = 0
    /\ service' = [service EXCEPT !.mutex = t, !.phase[t] = "locked"]
    /\ UnchangedRun

\* handle.ready().await, first half: the concurrency limit hands out a permit.
AcquirePermit(t) ==
    /\ pc = "service"
    /\ service.phase[t] = "locked"
    /\ PermitAvailable(service)
    /\ service' = [service EXCEPT !.phase[t] = "permitted"]
    /\ UnchangedRun

\* handle.ready().await, second half (the rate limit is ready), then
\* `let fut = t.call(request); drop(handle);`.  A call after the window's end
\* opens a new window; the call that uses up the window's last request leaves the
\* rate limit Limited.
Call(t) ==
    /\ pc = "service"
    /\ service.phase[t] = "permitted"
    /\ RateReady(service.rate)
    /\ LET new_window == service.rate.elapsed
           rem == IF new_window THEN RateLimitNum(service.kind) ELSE service.rate.rem
       IN  service' = [service EXCEPT
               !.rate = IF rem > 1
                        THEN [state |-> "Ready", rem |-> rem - 1, elapsed |-> FALSE]
                        ELSE [state |-> "Limited", rem |-> 0, elapsed |-> FALSE],
               !.window_sent = IF new_window THEN 1 ELSE @ + 1,
               !.phase[t] = "in_flight",
               !.mutex = 0]
    /\ UnchangedRun

\* fut.await: the response arrives and the permit goes back.
Respond(t) ==
    /\ pc = "service"
    /\ service.phase[t] = "in_flight"
    /\ service' = [service EXCEPT !.phase[t] = "done"]
    /\ UnchangedRun

\* The response of a request that an earlier task sent.
OtherResponds ==
    /\ pc = "service"
    /\ service.others_in_flight > 0
    /\ service' = [service EXCEPT !.others_in_flight = @ - 1]
    /\ UnchangedRun

\* ONE_MINUTE has passed since the window was opened.
WindowElapses ==
    /\ pc = "service"
    /\ ~service.rate.elapsed
    /\ service' = [service EXCEPT !.rate.elapsed = TRUE]
    /\ UnchangedRun

InitService ==
    /\ input = DefaultInput
    /\ registry = [versions |-> VersionsOf(None), manifests |-> ManifestsOf(<<>>, <<>>, <<>>)]
    /\ pc = "service"
    /\ counts = [remaining_requests |-> 0, package_versions |-> 0, rate_limit_reset |-> 0]
    /\ fetch_all_set = EmptyMap
    /\ all_package_data = <<>>
    /\ tag_is_kept = EmptyMap
    /\ fetch_digest_set = {}
    /\ manifest_result = EmptyMap
    /\ kept_digests = {}
    /\ deleted_digests = {}
    /\ digest_tag = EmptyMap
    /\ package_version_map = EmptyMap
    /\ InitDeleteVars
    /\ owner = None
    /\ package_fetch = NoPackageFetch
    /\ abort = None
    /\ rate_limit = None
    /\ requests = NoRequests
    /\ service \in Services
    /\ call = NoCall

NextService ==
    \/ \E t \in Tasks : Lock(t)
    \/ \E t \in Tasks : AcquirePermit(t)
    \/ \E t \in Tasks : Call(t)
    \/ \E t \in Tasks : Respond(t)
    \/ OtherResponds
    \/ WindowElapses

SpecService == InitService /\ [][NextService]_vars

----------------------------------------------------------------------------
(* main: start-up, selection, then deletion unless selection failed *)

\* Err(e) => { error!("Failed to fetch package versions: {e}"); exit(1) }
ExitOnError ==
    /\ pc = "error"
    /\ pc' = "exited"
    /\ UNCHANGED <<input, registry>>
    /\ UNCHANGED selVars
    /\ UNCHANGED delVars
    /\ UNCHANGED <<startVars, svcVars, requests>>

Init ==
    /\ \E dry_run \in BOOLEAN, choice \in StartChoices :
          input = [DefaultInput EXCEPT !.dry_run = dry_run, !.token = choice[1],
                                       !.image_names = choice[2]]
    /\ registry = [versions |-> VersionsOf(None),
                   manifests |-> ManifestsOf(Index(<<Sha(3), Sha(4)>>), <<>>, <<>>)]
    /\ pc = "start"
    /\ counts = [remaining_requests |-> 0, package_versions |-> 0, rate_limit_reset |-> 0]
    /\ fetch_all_set = EmptyMap
    /\ all_package_data = <<>>
    /\ tag_is_kept = EmptyMap
    /\ fetch_digest_set = {}
    /\ manifest_result = EmptyMap
    /\ kept_digests = {}
    /\ deleted_digests = {}
    /\ digest_tag = EmptyMap
    /\ package_version_map = EmptyMap
    /\ InitDeleteVars
    /\ owner = None
    /\ package_fetch = NoPackageFetch
    /\ abort = None
    /\ rate_limit = None
    /\ requests = NoRequests
    /\ service = NoService
    /\ call = NoCall

Next ==
    \/ NextStart
    \/ NextSelect
    \/ ExitOnError
    \/ NextDelete

Spec == Init /\ [][Next]_vars

----------------------------------------------------------------------------
(* Vocabulary of the properties *)

\* select_package_versions has returned Ok.
SelectionReturned == pc \in {"selected", "first_pass_done", "join", "done", "panicked"}

\* Every manifest fetch that was joined returned the registry's manifest.
AllManifestsFetched == \A task \in DOMAIN manifest_result : manifest_result[task].status = "ok"

FetchedPackages == {all_package_data[i][1] : i \in 1..Len(all_package_data)}

DataOf(p) == all_package_data[CHOOSE i \in 1..Len(all_package_data) : all_package_data[i][1] = p]

\* The versions of p that the listing returned, and those Step B selected.
ListedTagged(p) == Range(DataOf(p)[3].tagged)
ListedUntagged(p) == Range(DataOf(p)[3].untagged)
CandidateTagged(p) == Range(DataOf(p)[2].tagged)
CandidateUntagged(p) == Range(DataOf(p)[2].untagged)

\* The returned delete map.
FinalTagged(p) == Range(package_version_map[p].tagged)
FinalUntagged(p) == Range(package_version_map[p].untagged)
FinalVersions(p) == FinalTagged(p) \cup FinalUntagged(p)
DeletedNames == UNION {{v.name : v \in FinalVersions(p)} : p \in DOMAIN package_version_map}
DeletedUntaggedNames == UNION {{v.name : v \in FinalUntagged(p)} : p \in DOMAIN package_version_map}

\* The child digests of the manifest of tag t of package p in the registry.
ChildDigests(p, t) ==
    LET m == registry.manifests[TagKey(p, t)] IN {m[i][1] : i \in 1..Len(m)}

\* The (package, version, tag) triples of the listing, split by Step C.
ListedTags == {<<p, v, t>> \in UNION {{<<p, v, t>> : v \in ListedTagged(p), t \in TagsOf(DataOf(p)[3].tagged)} :
                                          p \in FetchedPackages} : t \in Range(v.tags)}
KeptTags == {x \in ListedTags : tag_is_kept[TagKey(x[1], x[3])]}
DeletedTags == {x \in ListedTags : ~tag_is_kept[TagKey(x[1], x[3])]}

KeptChildDigests == UNION {ChildDigests(x[1], x[3]) : x \in KeptTags}

----------------------------------------------------------------------------
(* Properties of the selection *)

\* C1: after a selection in which every manifest was fetched, the version of
\* every tag that Step C classified as kept is absent from the delete map, and
\* so is every version, of any package, whose digest is a child digest of that
\* tag's manifest.
C1_KeptTagsAreProtected ==
    (SelectionReturned /\ AllManifestsFetched) =>
        \A x \in KeptTags :
            /\ x[2] \notin FinalVersions(x[1])
            /\ ChildDigests(x[1], x[3]) \cap DeletedNames = {}

\* A kept tag's child digest is the digest of a version that Step B had selected.
C1_Witness ==
    /\ pc = "selected"
    /\ AllManifestsFetched
    /\ \E x \in KeptTags : \E p \in FetchedPackages :
         \E v \in CandidateUntagged(p) \cup CandidateTagged(p) : v.name \in ChildDigests(x[1], x[3])

\* C2: a listed tagged version that is absent from the final tagged delete list
\* (also one that keep-n or the kept-digest check removed from it) has no child
\* digest of any of its tags in a final untagged delete list.
C2_ChildrenOfSparedVersionsAreKept ==
    (SelectionReturned /\ AllManifestsFetched) =>
        \A x \in ListedTags :
            x[2] \notin FinalTagged(x[1]) => ChildDigests(x[1], x[3]) \cap DeletedUntaggedNames = {}

\* C3: no version whose content address is in shas_to_skip is in the delete map.
C3_ShasToSkipAreNeverDeleted ==
    SelectionReturned => DeletedNames \cap Range(input.shas_to_skip) = {}

\* C4 as stated: with keep_n_most_recent = 0, the version of a tag selected for
\* deletion is in the final tagged list, its untagged children that no kept tag
\* references are in the final untagged list, and children of kept tags are not.
C4_DeletedTagsAsStated ==
    (SelectionReturned /\ AllManifestsFetched /\ input.keep_n_most_recent = 0) =>
        /\ \A x \in DeletedTags :
            /\ x[2] \in FinalTagged(x[1])
            /\ \A p \in FetchedPackages : \A u \in ListedUntagged(p) :
                 (u.name \in ChildDigests(x[1], x[3]) \ KeptChildDigests) => u \in FinalUntagged(p)
        /\ \A p \in FetchedPackages : \A u \in ListedUntagged(p) :
             u.name \in KeptChildDigests => u \notin FinalUntagged(p)

\* C4, amended: with keep_n_most_recent = 0, the version of a tag selected for
\* deletion is in the final tagged list unless its own digest is a child digest
\* of a kept tag's manifest; its untagged children that no kept tag references
\* are in the final untagged list of their package, and untagged children of
\* kept tags are not.
C4_DeletedTagsAndTheirChildren ==
    (SelectionReturned /\ AllManifestsFetched /\ input.keep_n_most_recent = 0) =>
        /\ \A x \in DeletedTags :
            /\ x[2] \in FinalTagged(x[1]) <=> x[2].name \notin KeptChildDigests
            /\ \A p \in FetchedPackages : \A u \in ListedUntagged(p) :
                 (u.name \in ChildDigests(x[1], x[3]) \ KeptChildDigests) => u \in FinalUntagged(p)
        /\ \A p \in FetchedPackages : \A u \in ListedUntagged(p) :
             u.name \in KeptChildDigests => u \notin FinalUntagged(p)

\* An untagged version that Step B did not select is deleted as the child of a
\* deleted tag, while another untagged version is spared as the child of a kept tag.
C4_Witness ==
    /\ pc = "selected"
    /\ AllManifestsFetched
    /\ input.keep_n_most_recent = 0
    /\ \E x \in DeletedTags : \E p \in FetchedPackages :
         \E u \in ListedUntagged(p) \ CandidateUntagged(p) :
            /\ u.name \in ChildDigests(x[1], x[3]) \ KeptChildDigests
            /\ x[2] \in FinalTagged(x[1])
    /\ \E p \in FetchedPackages : \E u \in CandidateUntagged(p) : u.name \in KeptChildDigests

\* The digests that the joined manifest fetches returned for kept and for deleted tags.
ReturnedDigests(is_kept) ==
    UNION {manifest_result[task].digests :
             task \in {k \in DOMAIN manifest_result : IsKeptTag(tag_is_kept, k[1], k[2]) = is_kept}}

\* C5: after categorisation kept_digests and deleted_digests are disjoint; a
\* digest returned for a kept and for a deleted tag is in kept_digests only and
\* names no version of the delete map; both sets depend only on what the
\* fetches returned, not on the order in which they completed.
C5_KeptWinsOnSharedDigests ==
    SelectionReturned =>
        /\ kept_digests \cap deleted_digests = {}
        /\ kept_digests = ReturnedDigests(TRUE)
        /\ deleted_digests = ReturnedDigests(FALSE) \ ReturnedDigests(TRUE)
        /\ \A d \in ReturnedDigests(TRUE) \cap ReturnedDigests(FALSE) :
             d \in kept_digests /\ d \notin deleted_digests /\ d \notin DeletedNames

\* A digest is returned for a kept and for a deleted tag, and a listed version has it.
C5_Witness ==
    /\ pc = "selected"
    /\ \E d \in ReturnedDigests(TRUE) \cap ReturnedDigests(FALSE) :
         \E p \in FetchedPackages : \E u \in ListedUntagged(p) : u.name = d

----------------------------------------------------------------------------
(* Properties of the run and of the deletion executor *)

\* C6: when the listing of a package has failed (a failed request, a failed
\* service or a page that does not deserialize), the selection never returns a
\* delete map, no delete task is spawned and no DELETE request is sent; the run
\* can only end in the error exit.
C6_ListingFailureStopsTheRun ==
    (\E p \in DOMAIN fetch_all_set : fetch_all_set[p].state = "err") =>
        /\ pc \in {"fetch_all", "error", "exited"}
        /\ package_version_map = EmptyMap
        /\ delete_set = <<>>
        /\ delete_requests = {}

\* The run has exited on the failed listing of one package after the listing of
\* the other package was joined with versions selected for deletion.
C6_Witness ==
    /\ pc = "exited"
    /\ \E p \in DOMAIN fetch_all_set : fetch_all_set[p].state = "err"
    /\ \E i \in 1..Len(all_package_data) : PVLen(all_package_data[i][2]) > 0

\* The number of candidates of a kind over all packages of the delete map.
RECURSIVE CountCandidates(_, _)
CountCandidates(order, kind) ==
    IF order = <<>> THEN 0
    ELSE Len(package_version_map[Head(order)][kind]) + CountCandidates(Tail(order), kind)

Untagged == CountCandidates(executor.order, "untagged")
Tagged == CountCandidates(executor.order, "tagged")

SpawnedOf(kind) == {i \in 1..Len(delete_set) : delete_set[i].kind = kind}

\* The executor has stopped spawning: it returned the set, or it panicked.
ExecutorEnded == pc \in {"join", "done", "panicked"}

\* C7: the executor never spawns more delete tasks than the budget A it
\* snapshots, and when it has ended it has spawned exactly min(A, U + T) tasks.
C7_SpawnsMinOfBudgetAndCandidates ==
    /\ Len(delete_set) <= executor.initial_allocatable_requests
    /\ ExecutorEnded =>
         Len(delete_set) = Min(executor.initial_allocatable_requests, Untagged + Tagged)

\* C8: a tagged version is enqueued only when every untagged candidate of every
\* package has been enqueued before it; when the budget is 0 after the untagged
\* pass (A <= U) no tagged version is ever enqueued.
C8_TaggedOnlyAfterAllUntagged ==
    /\ SpawnedOf("tagged") # {} =>
         /\ Cardinality(SpawnedOf("untagged")) = Untagged
         /\ \A i \in SpawnedOf("untagged") : \A j \in SpawnedOf("tagged") : i < j
    /\ (pc # "selected" /\ executor.initial_allocatable_requests <= Untagged) =>
         SpawnedOf("tagged") = {}

\* Both packages have untagged candidates, and a tagged version was enqueued
\* behind all of them.
C8_Witness ==
    /\ pc = "join"
    /\ SpawnedOf("tagged") # {}
    /\ \A p \in DOMAIN package_version_map : package_version_map[p].untagged # <<>>
    /\ Tagged > Cardinality(SpawnedOf("tagged"))

\* C9: with dry_run no DELETE request is sent, every joined delete task has
\* returned Ok without a request, and both result lists stay empty.
C9_DryRunSendsNothing ==
    input.dry_run =>
        /\ delete_requests = {}
        /\ \A i \in 1..Len(delete_set) : delete_set[i].state # "sent"
        /\ join_result # None => join_result[1].result = "Ok" /\ join_result[1].outcome = DryRun
        /\ deleted_packages = <<>>
        /\ failed_packages = <<>>

\* A dry run whose selection chose versions has spawned and joined their delete
\* tasks and has returned.
C9_Witness ==
    /\ input.dry_run
    /\ pc = "done"
    /\ Len(delete_set) > 1
    /\ \E p \in DOMAIN package_version_map : PVLen(package_version_map[p]) > 0

\* The number of display names of the delete tasks in the given state.
RECURSIVE CountNames(_, _)
CountNames(tasks, state) ==
    IF tasks = <<>> THEN 0
    ELSE (IF Head(tasks).state = state
          THEN Len(DisplayNames(Head(tasks).package_name, Head(tasks).version)) ELSE 0)
         + CountNames(Tail(tasks), state)

\* C10: without dry_run every joined delete task has put its display names in
\* exactly one list, the deleted list iff the response was a 204 and the failed
\* list otherwise, and when delete_package_versions returns, the two lists hold
\* the names of every spawned deletion.
C10_EverySpawnedDeletionIsReported ==
    ~input.dry_run =>
        /\ join_result # None =>
             LET j == join_result[1] IN
                 IF j.outcome.kind = "response" /\ j.outcome.status = 204
                 THEN j.result = "Ok" ELSE j.result = "Err"
        /\ Len(deleted_packages) + Len(failed_packages) = CountNames(delete_set, "joined")

----------------------------------------------------------------------------
(* Manifest fetches that fail *)

\* The manifest fetches that select_package_versions spawns: one per listed tag.
SpawnedManifestFetches ==
    UNION {{<<p, t>> : t \in TagsOf(DataOf(p)[3].tagged)} : p \in FetchedPackages}

\* C11: a manifest fetch that fails (network error, non-2xx status, unreadable
\* body, unrecognised JSON) contributes no child digest and never ends the
\* selection: only a version listing that failed does, every other tag's
\* manifest is still joined, and a delete map is returned for every package.
C11_ManifestFailureIsNotFatal ==
    /\ \A task \in DOMAIN manifest_result :
          manifest_result[task].status = "failed" => manifest_result[task].digests = {}
    /\ pc = "error" => \E p \in DOMAIN fetch_all_set : fetch_all_set[p].state \in {"err", "panicked"}
    /\ pc = "selected" =>
          /\ DOMAIN manifest_result = SpawnedManifestFetches
          /\ DOMAIN package_version_map = DOMAIN fetch_all_set

\* A selection that returned although one manifest fetch failed, in which another
\* tag's manifest was read and something is selected for deletion.
C11_Witness ==
    /\ pc = "selected"
    /\ \E task \in DOMAIN manifest_result : manifest_result[task].status = "failed"
    /\ \E task \in DOMAIN manifest_result :
          manifest_result[task].status = "ok" /\ manifest_result[task].digests # {}
    /\ \E p \in DOMAIN package_version_map : PVLen(package_version_map[p]) > 0

----------------------------------------------------------------------------
(* Start-up checks *)

\* Requests sent to the packages API: package, version and delete requests.
PackagesApiRequests ==
    requests.list_packages + requests.fetch_package + requests.list_versions
        + requests.delete_version

\* The configured image names that contain '*' or '!'.
FilterNames ==
    {input.image_names[i] : i \in {j \in 1..Len(input.image_names) :
        \E k \in 1..Len(input.image_names[j]) : input.image_names[j][k] \in {"*", "!"}}}

\* C12: with a Temporal token and an image name that contains '*' or '!', the
\* run never gets past the name check: it ends there with an error that names
\* such an image name, and no fetch-package, list-packages, list-versions or
\* delete request is ever sent, even when the names before it are valid.
C12_TemporalRejectsFilterSyntax ==
    /\ (input.token = "Temporal" /\ FilterNames # {}) =>
          /\ pc \in {"start", "fetch_packages", "aborted", "exited"}
          /\ PackagesApiRequests = 0
          /\ pc = "aborted" =>
                \/ abort[1].reason = "rate_limit_failed"
                \/ abort[1].reason = "invalid_image_name" /\ abort[1].image_name \in FilterNames
    /\ (abort # None /\ abort[1].reason = "invalid_image_name") => input.token = "Temporal"

\* The run was aborted on an image name that follows a valid one, after the probe.
C12_Witness ==
    /\ pc = "aborted"
    /\ abort = Aborted("invalid_image_name", <<"b", "*">>)
    /\ input.image_names[1] \notin FilterNames
    /\ requests.rate_limit = 1

\* C13: a probe answered with 401 ends the run, and so does, for every token
\* kind but Temporal, an answer whose scope header is missing or lacks
\* delete:packages; after either, no package, version or delete request is sent.
\* A Temporal token is never rejected for its scopes.
C13_ProbeRejectsBadTokens ==
    (rate_limit # None /\ rate_limit[1].kind = "response") =>
        /\ rate_limit[1].status = 401 => pc = "exited" /\ PackagesApiRequests = 0
        /\ ( /\ rate_limit[1].status # 401
             /\ input.token # "Temporal"
             /\ \/ rate_limit[1].x_oauth_scopes = None
                \/ "delete:packages" \notin rate_limit[1].x_oauth_scopes[1] )
           => pc = "exited" /\ PackagesApiRequests = 0
        /\ input.token = "Temporal" =>
             (abort = None \/ abort[1].reason # "missing_scope")

----------------------------------------------------------------------------
(* The selection under budget pressure, against the selection of a complete listing *)

\* What the pagination of p returns when nothing stops it early.
CompleteListing(p) == PartitionPage(registry.versions[p])

CompleteToDelete(p) == PackageVersionsToDelete(CompleteListing(p))

\* The tags of p that the run over the complete listing records as kept.
CompleteKeptTags(p) ==
    TagsOf(TaggedVersionsToKeep(CompleteListing(p), CompleteToDelete(p)))
        \ TagsOf(CompleteToDelete(p).tagged)

ManifestDigests(p, t) ==
    {registry.manifests[TagKey(p, t)][i][1] : i \in 1..Len(registry.manifests[TagKey(p, t)])}

CompleteKeptDigests ==
    UNION {UNION {ManifestDigests(p, t) : t \in CompleteKeptTags(p)} : p \in DOMAIN fetch_all_set}

CompleteDeletedDigests ==
    RetainNotKept(
        UNION {UNION {ManifestDigests(p, t) :
                        t \in TagsOf(CompleteListing(p).tagged) \ CompleteKeptTags(p)} :
               p \in DOMAIN fetch_all_set},
        CompleteKeptDigests)

\* The delete map of the same run over the complete listing, every manifest read.
CompleteMap(p) ==
    RewriteDeleteSet(CompleteToDelete(p), CompleteListing(p), CompleteKeptDigests,
                     CompleteDeletedDigests)

\* The pagination of p ended at the budget check with a next page outstanding.
StoppedByBudget(p) == fetch_all_set[p].joined /\ fetch_all_set[p].next_url # None

ListingIsComplete(p) == fetch_all_set[p].result = CompleteListing(p)

\* C14: when only the budget check cut listings short (and every manifest was
\* read), each version of the returned delete map is also in the delete map that
\* the run computes from the complete listings.
C14_TruncationOnlyShrinksTheDeleteMap ==
    ( /\ pc = "selected"
      /\ AllManifestsFetched
      /\ \A p \in DOMAIN fetch_all_set : StoppedByBudget(p) \/ ListingIsComplete(p)
      /\ \E p \in DOMAIN fetch_all_set : StoppedByBudget(p) )
    => \A p \in DOMAIN package_version_map :
          /\ Range(package_version_map[p].untagged) \subseteq Range(CompleteMap(p).untagged)
          /\ Range(package_version_map[p].tagged) \subseteq Range(CompleteMap(p).tagged)

----------------------------------------------------------------------------
(* The request budget *)

\* C15: no step sends a list-versions page request or a fetch-package request
\* while remaining_requests is 0, and no step takes remaining_requests below 0:
\* it never wraps around and no task panics on the decrement.
C15_NoRequestOnAnEmptyBudget ==
    [][ /\ requests'.list_versions > requests.list_versions => counts.remaining_requests > 0
        /\ requests'.fetch_package > requests.fetch_package => counts.remaining_requests > 0
        /\ counts'.remaining_requests <= counts.remaining_requests
        /\ \A p \in DOMAIN fetch_all_set : fetch_all_set'[p].state # "panicked" ]_vars

\* C16: at the end of a run, the requests sent to the packages API (list-packages
\* pages, fetch-package, list-versions pages, delete-version) number exactly the
\* initial minus the final value of remaining_requests.
C16_EveryRequestIsCounted ==
    pc = "done" =>
        PackagesApiRequests = requests.remaining_at_start - counts.remaining_requests

----------------------------------------------------------------------------
(* The rate-limited services *)

InFlight == service.others_in_flight + Cardinality({t \in Tasks : service.phase[t] = "in_flight"})

\* C17: at most 100 requests sent through a service are in flight at any moment,
\* a task waits for a permit while 100 are, and a task whose request is in
\* flight does not hold the service mutex.
C17_AtMostHundredInFlight ==
    /\ InFlight <= 100
    /\ InFlight = 100 => \A t \in Tasks : service.phase[t] # "permitted"
    /\ \A t \in Tasks : service.phase[t] = "in_flight" => service.mutex # t

\* 100 requests are in flight, two of them sent by tasks that took the mutex one
\* after the other, and a third task holds the mutex and waits for a permit.
C17_Witness ==
    /\ InFlight = 100
    /\ Cardinality({t \in Tasks : service.phase[t] = "in_flight"}) >= 2
    /\ \E t \in Tasks : service.phase[t] = "locked" /\ service.mutex = t

\* C18: in one window, at most 900 requests go through a GET service and at most
\* 180 through the delete service; with the window's budget used up, the rate
\* limit lets nothing through until the window has ended.
C18_WindowBudget ==
    /\ service.kind \in {"fetch_package", "list_packages", "list_package_versions"} =>
          service.window_sent <= 900
    /\ service.kind = "delete_package_versions" => service.window_sent <= 180
    /\ ( /\ service.kind # "none"
         /\ service.window_sent = (IF service.kind = "delete_package_versions" THEN 180 ELSE 900)
         /\ ~service.rate.elapsed )
       => service.rate.state = "Limited"

\* The delete service has sent its 180th request of the window, and a task that
\* holds a permit waits for the window to end.
C18_Witness ==
    /\ service.kind = "delete_package_versions"
    /\ service.window_sent = 180
    /\ ~service.rate.elapsed
    /\ \E t \in Tasks : service.phase[t] = "permitted"
    /\ \E t \in Tasks : service.phase[t] \in {"in_flight", "done"}

----------------------------------------------------------------------------
(* handle_keep_n_most_recent and filter_by_matchers as functions *)

KeepNReturned == call.fn = "handle_keep_n_most_recent" /\ call.ret # None

KeyOf(pv) == get_relevant_timestamp(pv, call.timestamp_to_use)

\* The position of a version in the list handed to the call.
InputIndex(pv) == CHOOSE i \in 1..Len(call.package_versions) : call.package_versions[i] = pv

\* C19: handle_keep_n_most_recent returns max(|vs| - n, 0) of the versions it
\* was given, in ascending order of the relevant timestamp and, for equal
\* timestamps, in their input order; what it leaves out is the tail of that
\* order: no omitted version is older than a returned one, and an omitted
\* version as old as a returned one came after it in the input.
C19_KeepNSparesTheNewest ==
    KeepNReturned =>
        LET vs == call.package_versions
            n == call.keep_n_most_recent
            r == call.ret[1]
            omitted == Range(vs) \ Range(r)
        IN  /\ Len(r) = (IF Len(vs) > n THEN Len(vs) - n ELSE 0)
            /\ Range(r) \subseteq Range(vs)
            /\ Cardinality(Range(r)) = Len(r)
            /\ \A i, j \in 1..Len(r) : i < j =>
                  \/ KeyOf(r[i]) < KeyOf(r[j])
                  \/ KeyOf(r[i]) = KeyOf(r[j]) /\ InputIndex(r[i]) < InputIndex(r[j])
            /\ \A x \in omitted, y \in Range(r) :
                  \/ KeyOf(x) > KeyOf(y)
                  \/ KeyOf(x) = KeyOf(y) /\ InputIndex(x) > InputIndex(y)

\* Three versions given newest first, two of them equally old, one spared.
C19_Witness ==
    /\ KeepNReturned
    /\ Len(call.package_versions) = 3
    /\ call.keep_n_most_recent = 1
    /\ Len(call.ret[1]) = 2
    /\ KeyOf(call.package_versions[1]) > KeyOf(call.package_versions[2])
    /\ KeyOf(call.ret[1][1]) = KeyOf(call.ret[1][2])

FilterReturned == call.fn = "filter_by_matchers" /\ call.ret # None

\* The patterns of the call's filters, told apart by the leading '!'.
NegativePatterns ==
    {Tail(call.image_tags[i]) : i \in {j \in 1..Len(call.image_tags) :
        call.image_tags[j] # <<>> /\ Head(call.image_tags[j]) = "!"}}

PositivePatterns ==
    {call.image_tags[i] : i \in {j \in 1..Len(call.image_tags) :
        call.image_tags[j] = <<>> \/ Head(call.image_tags[j]) # "!"}}

CallTags == Range(call.package_version.tags)

NegativeHit == \E t \in CallTags, pat \in NegativePatterns : WildMatch(pat, t)

PositiveHits == {t \in CallTags : \E pat \in PositivePatterns : WildMatch(pat, t)}

\* C20: a version with tags is selected iff there are no filters, or no tag hits
\* a negative pattern and every tag hits a positive one (or there are no positive
\* patterns).  A negative hit together with a positive hit, and positive hits on
\* some but not all tags, are logged as a warning that holds the version's
\* frontend URL; nothing else is.
C20_TagMatcherSelection ==
    FilterReturned =>
        LET selected == call.ret[1].arm \in {"no_filters", "all_positive"}
            log == call.ret[1].log
            conflict == NegativeHit /\ PositiveHits # {}
            partial == ~NegativeHit /\ PositiveHits # {} /\ PositiveHits # CallTags
        IN  /\ selected <=>
                  \/ call.image_tags = <<>>
                  \/ /\ ~NegativeHit
                     /\ (PositivePatterns = {} \/ PositiveHits = CallTags)
            /\ (call.image_tags # <<>> /\ (conflict \/ partial)) <=> log.level = "warn"
            /\ log.level = "warn" =>
                  log.url = Some(<<"packages_frontend_base", call.package_name,
                                   call.package_version.id>>)

\* A version with one tag that hits a negative and a positive pattern and one that
\* hits nothing: not selected, and warned about.
C20_Witness ==
    /\ FilterReturned
    /\ NegativeHit
    /\ PositiveHits # {}
    /\ PositiveHits # CallTags
    /\ call.ret[1].arm = "conflict"
    /\ call.ret[1].log.level = "warn"

----------------------------------------------------------------------------
(* filter_by_tag_selection and older_than_cutoff as functions *)

TagSelectionReturned == call.fn = "filter_by_tag_selection" /\ call.ret # None

\* The tag matcher accepts the call's version.
MatcherAccepts ==
    \/ call.image_tags = <<>>
    \/ /\ ~NegativeHit
       /\ (PositivePatterns = {} \/ PositiveHits = CallTags)

\* C21: filter_by_tag_selection makes a version without tags an untagged
\* candidate iff the selection is Untagged or Both, and a version with tags a
\* tagged candidate iff the selection is Tagged or Both and the tag matcher
\* accepts it; a version with tags is never an untagged candidate, a version
\* without tags never a tagged one, and (Untagged, tags) and (Tagged, no tags)
\* are discarded.
C21_TagSelectionClassifies ==
    TagSelectionReturned =>
        LET has_tags == call.package_version.tags # <<>>
            sel == call.tag_selection
            r == call.ret[1]
        IN  /\ r \in {"Tagged", "Untagged", "None"}
            /\ (r = "Untagged") <=> (~has_tags /\ sel \in {"Untagged", "Both"})
            /\ (r = "Tagged") <=> (has_tags /\ sel \in {"Tagged", "Both"} /\ MatcherAccepts)
            /\ (sel = "Untagged" /\ has_tags) => r = "None"
            /\ (sel = "Tagged" /\ ~has_tags) => r = "None"

\* A version with tags that the matcher would accept, discarded because only
\* untagged versions are selected.
C21_Witness ==
    /\ TagSelectionReturned
    /\ call.tag_selection = "Untagged"
    /\ call.package_version.tags # <<>>
    /\ call.image_tags # <<>>
    /\ MatcherAccepts
    /\ call.ret[1] = "None"

CutoffReturned == call.fn = "older_than_cutoff" /\ call.ret # None

\* The time the cut-off step reads from the call's version.
RelevantTime ==
    IF call.timestamp_to_use = "CreatedAt" THEN call.package_version.created_at
    ELSE IF call.package_version.updated_at = None THEN call.package_version.created_at
    ELSE call.package_version.updated_at[1]

\* C22: a version passes the cut-off step iff its relevant timestamp is strictly
\* older than now - cut_off; the relevant timestamp is created_at for CreatedAt
\* and updated_at, or created_at when there is no updated_at, for UpdatedAt.  One
\* unit short of the cut-off and exactly at the cut-off the version is kept, one
\* unit beyond it is selected.
C22_CutoffIsStrict ==
    CutoffReturned =>
        /\ call.ret[1] <=> (RelevantTime < call.now - call.cut_off)
        /\ RelevantTime = call.now - call.cut_off + 1 => ~call.ret[1]
        /\ RelevantTime = call.now - call.cut_off => ~call.ret[1]
        /\ RelevantTime = call.now - call.cut_off - 1 => call.ret[1]

\* A version created beyond the cut-off and updated exactly at it: kept when the
\* update time is the relevant one.
C22_Witness ==
    /\ CutoffReturned
    /\ call.timestamp_to_use = "UpdatedAt"
    /\ call.cut_off = 1
    /\ call.package_version.created_at = call.now - 2
    /\ call.package_version.updated_at = Some(call.now - 1)
    /\ ~call.ret[1]

----------------------------------------------------------------------------
(* The package selector and Matchers::from as functions *)

SelectPackagesReturned == call.fn = "select_packages::filter_by_matchers" /\ call.ret # None

NegativeNamePatterns ==
    {Tail(call.image_names[i]) : i \in {j \in 1..Len(call.image_names) :
        call.image_names[j] # <<>> /\ Head(call.image_names[j]) = "!"}}

PositiveNamePatterns ==
    {call.image_names[i] : i \in {j \in 1..Len(call.image_names) :
        call.image_names[j] = <<>> \/ Head(call.image_names[j]) # "!"}}

\* The package name matches no negative pattern and, when there is a positive
\* pattern, at least one positive pattern.
NameIsSelected(name) ==
    /\ ~\E pat \in NegativeNamePatterns : WildMatch(pat, name)
    /\ PositiveNamePatterns # {} => \E pat \in PositiveNamePatterns : WildMatch(pat, name)

PositionIn(seq, x) == CHOOSE i \in 1..Len(seq) : seq[i] = x

\* C23: the package selector returns exactly the fetched names that match no
\* negative pattern and, when a positive pattern exists, match a positive one,
\* each once and in fetch order; a name that matches a negative pattern is never
\* returned, whatever positive pattern it matches.
C23_PackageSelector ==
    SelectPackagesReturned =>
        LET r == call.ret[1]
        IN  /\ Range(r) = {name \in Range(call.packages) : NameIsSelected(name)}
            /\ Cardinality(Range(r)) = Len(r)
            /\ \A i, j \in 1..Len(r) : i < j =>
                  PositionIn(call.packages, r[i]) < PositionIn(call.packages, r[j])
            /\ \A name \in Range(call.packages) :
                  (\E pat \in NegativeNamePatterns : WildMatch(pat, name)) => name \notin Range(r)

\* Three packages fetched as c, ab, a with the filters "a*" and "!ab": only a is
\* returned although ab matches the positive pattern.
C23_Witness ==
    /\ SelectPackagesReturned
    /\ call.packages = <<PkgC, <<"a", "b">>, PkgA>>
    /\ call.image_names = << <<"a", "*">>, <<"!", "a", "b">> >>
    /\ call.ret[1] = <<PkgA>>

MatchersReturned == call.fn = "Matchers::from" /\ call.ret # None

\* How often x occurs in seq.
Occurrences(seq, x) == Cardinality({i \in 1..Len(seq) : seq[i] = x})

IsLiteral(pattern) == \A i \in 1..Len(pattern) : pattern[i] \notin {"*", "?"}

IsPrefixOf(prefix, value) ==
    Len(prefix) <= Len(value) /\ SubSeq(value, 1, Len(prefix)) = prefix

\* C24: Matchers::from puts every filter string into exactly one list, a string
\* that starts with '!' into the negative patterns without its '!', every other
\* string into the positive patterns; no filters give an empty matcher set that
\* matches nothing; a pattern matches the whole string only: a literal pattern
\* the equal string, a literal followed by '*' every string that starts with the
\* literal, a literal followed by '?' the literal and exactly one more character.
C24_MatchersFrom ==
    MatchersReturned =>
        LET m == call.ret[1].matchers
            f == call.filters
            v == call.value
        IN  /\ Len(m.positive) + Len(m.negative) = Len(f)
            /\ \A x \in Range(f) :
                  IF x # <<>> /\ Head(x) = "!"
                  THEN /\ Occurrences(m.negative, Tail(x)) = Occurrences(f, x)
                       /\ x \notin Range(m.positive)
                  ELSE /\ Occurrences(m.positive, x) = Occurrences(f, x)
                       /\ Occurrences(m.negative, x) = Occurrences(f, <<"!">> \o x)
            /\ f = <<>> =>
                  call.ret[1].is_empty /\ ~call.ret[1].positive_match /\ ~call.ret[1].negative_match
            /\ call.ret[1].is_empty <=> f = <<>>
            /\ (Len(f) = 1 /\ Len(m.positive) = 1) =>
                  LET pat == m.positive[1]
                      stem == SubSeq(pat, 1, Len(pat) - 1)
                  IN  /\ IsLiteral(pat) => (call.ret[1].positive_match <=> v = pat)
                      /\ (pat # <<>> /\ IsLiteral(stem) /\ pat[Len(pat)] = "*") =>
                            (call.ret[1].positive_match <=> IsPrefixOf(stem, v))
                      /\ (pat # <<>> /\ IsLiteral(stem) /\ pat[Len(pat)] = "?") =>
                            (call.ret[1].positive_match <=>
                                IsPrefixOf(stem, v) /\ Len(v) = Len(stem) + 1)
            /\ (Len(f) = 1 /\ Len(m.negative) = 1) =>
                  LET pat == m.negative[1]
                      stem == SubSeq(pat, 1, Len(pat) - 1)
                  IN  /\ IsLiteral(pat) => (call.ret[1].negative_match <=> v = pat)
                      /\ (pat # <<>> /\ IsLiteral(stem) /\ pat[Len(pat)] = "*") =>
                            (call.ret[1].negative_match <=> IsPrefixOf(stem, v))

\* The filters "!v1" and "v*" probed with "v12": one negative pattern "v1" that
\* does not match the longer string, one positive pattern that does.
C24_Witness ==
    /\ MatchersReturned
    /\ call.filters = << <<"!", "v", "1">>, <<"v", "*">> >>
    /\ call.value = <<"v", "1", "2">>
    /\ call.ret[1].matchers.negative = << <<"v", "1">> >>
    /\ call.ret[1].matchers.positive = << <<"v", "*">> >>
    /\ call.ret[1].positive_match
    /\ ~call.ret[1].negative_match

----------------------------------------------------------------------------
(* next_link as a function *)

NextLinkReturned == call.fn = "next_link" /\ call.ret # None

\* The parts of the call's header, none when the header is absent.
CallParts == IF call.link = None THEN <<>> ELSE call.link[1]

NextEntries == {i \in 1..Len(CallParts) : CallParts[i].rel = "next"}

\* C25: next_link returns the URL of the rel="next" entry whenever the header has
\* one, whatever the text of that URL and whatever prev, first and last entries
\* surround it, and None when it has none; it never returns the URL of a prev,
\* first or last entry.
C25_NextLinkIsFollowed ==
    NextLinkReturned =>
        LET r == call.ret[1]
        IN  /\ ~r.panicked
            /\ NextEntries # {} => \E i \in NextEntries : r.url = Some(CallParts[i].url)
            /\ NextEntries = {} => r.url = None

----------------------------------------------------------------------------
(* The order of the DELETE requests *)

\* C26: no DELETE request for a tagged version is sent before the DELETE
\* requests of all enqueued untagged versions have been sent, however the
\* spawned deletion tasks interleave.
C26_UntaggedRequestsGoFirst ==
    \A j \in SpawnedOf("tagged") :
        j \in delete_requests => \A i \in SpawnedOf("untagged") : i \in delete_requests

----------------------------------------------------------------------------
(* The budget check of the version listing *)

\* C27: before each list-versions page request, pagination stops without error
\* and returns the pages collected so far exactly when package_versions plus the
\* configured keep_n_most_recent exceeds remaining_requests; otherwise the page
\* is requested.
C27_BudgetCheckReservesKeepN ==
    [][ \A p \in DOMAIN fetch_all_set :
          (/\ p \in DOMAIN fetch_all_set'
           /\ fetch_all_set[p].state = "check"
           /\ fetch_all_set[p].next_url # None
           /\ fetch_all_set'[p].state # "check") =>
              LET stop == counts.package_versions + input.keep_n_most_recent
                              > counts.remaining_requests
              IN  /\ stop => (fetch_all_set'[p].state = "ok"
                               /\ fetch_all_set'[p].result = fetch_all_set[p].result
                               /\ requests'.list_versions = requests.list_versions)
                  /\ ~stop => (fetch_all_set'[p].state = "sent"
                                /\ requests'.list_versions = requests.list_versions + 1) ]_vars

----------------------------------------------------------------------------
(* The package_versions counter *)

\* The delete candidates of the per-version filter over the joined packages.
RECURSIVE CandidateCount(_)
CandidateCount(data) ==
    IF data = <<>> THEN 0 ELSE PVLen(Head(data)[2]) + CandidateCount(Tail(data))

\* C28: package_versions counts only the versions selected for deletion: at
\* the end of the selection it is the number of delete candidates of the
\* per-version filter over all packages, not the number of versions fetched.
C28_CounterCountsCandidates ==
    pc = "selected" => counts.package_versions = CandidateCount(all_package_data)

----------------------------------------------------------------------------
(* Requests and the rate-limited services *)

\* C29: every HTTP request (list-packages, fetch-package, list-versions,
\* delete-version, fetch-image-manifest and the rate-limit probe) is sent only
\* after it has acquired readiness from a rate-limited service.
C29_EveryRequestGoesThroughAService ==
    requests.rate_limit + requests.manifest + PackagesApiRequests = requests.via_service


\* C30: remaining_requests never increases during a run: every step that writes
\* it takes exactly 1 off, whichever task writes and in whatever order.
C30_RemainingRequestsOnlyDecrements ==
    [][ \/ counts'.remaining_requests = counts.remaining_requests
        \/ counts'.remaining_requests = counts.remaining_requests - 1 ]_vars

----------------------------------------------------------------------------
(* keep_n_most_recent and the two delete lists *)

\* The tagged candidates of a package that digest reconciliation leaves in.
ReconciledTagged(p) == {v \in CandidateTagged(p) : v.name \notin kept_digests}

\* The untagged list digest reconciliation builds for a package: the untagged
\* candidates, then the listed untagged versions a deleted tag references, less
\* what a kept tag references.  keep_n_most_recent is no part of it.
ReconciledUntagged(p) ==
    SelectSeq(DataOf(p)[2].untagged
                  \o SelectSeq(DataOf(p)[3].untagged, LAMBDA v : v.name \in deleted_digests),
              LAMBDA v : v.name \notin kept_digests)

RelevantOf(v) ==
    IF input.timestamp_to_use = "CreatedAt" \/ v.updated_at = None THEN v.created_at
    ELSE v.updated_at[1]

\* C31: keep_n_most_recent touches only the tagged list, once per package and
\* after digest reconciliation: the untagged delete list of every package is the
\* reconciled untagged list, the same for every value of keep_n_most_recent, and
\* the tagged list is the reconciled tagged list less its n newest entries.
C31_KeepNTouchesOnlyTagged ==
    pc = "selected" =>
        \A p \in DOMAIN package_version_map :
            LET n == input.keep_n_most_recent
                spared == ReconciledTagged(p) \ FinalTagged(p)
            IN  /\ package_version_map[p].untagged = ReconciledUntagged(p)
                /\ FinalTagged(p) \subseteq ReconciledTagged(p)
                /\ Len(package_version_map[p].tagged) = Cardinality(FinalTagged(p))
                /\ Cardinality(spared) = Min(n, Cardinality(ReconciledTagged(p)))
                /\ \A x \in spared, y \in FinalTagged(p) : RelevantOf(x) >= RelevantOf(y)

\* One tagged version of package a is spared by keep_n_most_recent = 1, another
\* stays in the tagged list, and the untagged list of a is not empty.
C31_Witness ==
    /\ pc = "selected"
    /\ input.keep_n_most_recent = 1
    /\ PkgA \in DOMAIN package_version_map
    /\ Cardinality(ReconciledTagged(PkgA)) = 2
    /\ Cardinality(FinalTagged(PkgA)) = 1
    /\ package_version_map[PkgA].untagged # <<>>

----------------------------------------------------------------------------
(* The manifest fetches of the selection *)

\* The (package, tag) pairs of the tagged versions that the joined listings hold.
ListedPairs ==
    UNION {{<<p, v.tags[i]>> : i \in 1..Len(v.tags)} :
           <<p, v>> \in UNION {{<<q, w>> : w \in ListedTagged(q)} : q \in FetchedPackages}}

\* The number of (version, tag) pairs of the tagged versions of the joined listings.
RECURSIVE TagCount(_)
TagCount(versions) ==
    IF versions = <<>> THEN 0 ELSE Len(Head(versions).tags) + TagCount(Tail(versions))

RECURSIVE ListedTagCount(_)
ListedTagCount(data) ==
    IF data = <<>> THEN 0 ELSE TagCount(Head(data)[3].tagged) + ListedTagCount(Tail(data))

\* C32: the manifest fetches of select_package_versions are exactly one per
\* (package, tag) pair over all fetched tagged versions, kept and to be deleted
\* alike, none for an untagged version; the fetches of a package exist only once
\* its version listing has been joined and its tags are classified.
C32_OneManifestFetchPerListedTag ==
    pc \in {"fetch_all", "fetch_digests", "selected"} =>
        /\ fetch_digest_set \cup DOMAIN manifest_result = ListedPairs
        /\ fetch_digest_set \cap DOMAIN manifest_result = {}
        /\ requests.manifest = Cardinality(DOMAIN manifest_result)
        /\ \A task \in fetch_digest_set \cup DOMAIN manifest_result :
              /\ fetch_all_set[task[1]].joined
              /\ fetch_all_set[task[1]].state = "ok"
              /\ TagKey(task[1], task[2]) \in DOMAIN tag_is_kept
              /\ \E v \in ListedTagged(task[1]) : task[2] \in Range(v.tags)
        /\ pc = "selected" => requests.manifest = ListedTagCount(all_package_data)

\* The manifests of a kept tag and of a deleted tag have both been fetched, while
\* the listing holds untagged versions.
C32_Witness ==
    /\ pc = "selected"
    /\ \E task \in DOMAIN manifest_result : tag_is_kept[TagKey(task[1], task[2])]
    /\ \E task \in DOMAIN manifest_result : ~tag_is_kept[TagKey(task[1], task[2])]
    /\ \E p \in FetchedPackages : ListedUntagged(p) # {}
    /\ requests.manifest >= 3

----------------------------------------------------------------------------
(* filter_package_versions as a function *)

FilterVersionsReturned == call.fn = "filter_package_versions" /\ call.ret # None

\* r holds versions of the list vs, each once, in the order of vs.
IsSubsequence(r, vs) ==
    /\ Range(r) \subseteq Range(vs)
    /\ Cardinality(Range(r)) = Len(r)
    /\ \A i, j \in 1..Len(r) : i < j => PositionIn(vs, r[i]) < PositionIn(vs, r[j])

CallRelevantTime(v) ==
    IF call.timestamp_to_use = "CreatedAt" \/ v.updated_at = None THEN v.created_at
    ELSE v.updated_at[1]

PassesEarlierSteps(v) ==
    /\ v.name \notin Range(call.shas_to_skip)
    /\ CallRelevantTime(v) < call.now - call.cut_off

\* C33: filter_package_versions returns two order-preserving subsequences of its
\* input with no version in both; the untagged list holds only versions without
\* tags, the tagged list only versions with a tag; every returned version is
\* absent from shas_to_skip and older than the cut-off; only versions that passed
\* the SHA skip and the cut-off reach the tag-selection step.
C33_FilterPackageVersionsLists ==
    FilterVersionsReturned =>
        LET r == call.ret[1].lists
            vs == call.package_versions
        IN  /\ IsSubsequence(r.untagged, vs)
            /\ IsSubsequence(r.tagged, vs)
            /\ Range(r.untagged) \cap Range(r.tagged) = {}
            /\ \A v \in Range(r.untagged) : v.tags = <<>>
            /\ \A v \in Range(r.tagged) : v.tags # <<>>
            /\ \A v \in Range(r.untagged) \cup Range(r.tagged) : PassesEarlierSteps(v)
            /\ Range(call.ret[1].classified) = {v \in Range(vs) : PassesEarlierSteps(v)}
            /\ Range(r.untagged) \cup Range(r.tagged) \subseteq Range(call.ret[1].classified)

\* An untagged version named in shas_to_skip and a tagged version newer than
\* the cut-off are dropped, a tagged and an untagged version are returned.
C33_Witness ==
    /\ FilterVersionsReturned
    /\ call.tag_selection = "Both"
    /\ call.shas_to_skip = <<Sha(3)>>
    /\ call.timestamp_to_use = "UpdatedAt"
    /\ call.image_tags = <<>>
    /\ Len(call.package_versions) = 3
    /\ Len(call.ret[1].lists.tagged) = 1
    /\ Len(call.ret[1].lists.untagged) = 0
    /\ Len(call.ret[1].classified) = 1

----------------------------------------------------------------------------
(* Termination of the deletion *)

\* C34: the pipelines cannot deadlock: with a scheduler that runs every task, a
\* registry that answers every request and a rate-limit window that advances,
\* every spawned delete task finishes and delete_package_versions returns.
C34_DeletionReturns == <>(pc = "done")

----------------------------------------------------------------------------
(* The shared counters *)

\* The pages of p's listing whose two updates are both done, and the decrements
\* of remaining_requests p's task has made (the page it is still counting has
\* been decremented for, not yet added).
PagesAppended(p) == (PVLen(fetch_all_set[p].result) + PerPage - 1) \div PerPage

DecrementsOf(p) == PagesAppended(p) + IF fetch_all_set[p].state = "count" THEN 1 ELSE 0

RECURSIVE CompletedDecrements(_)
CompletedDecrements(names) ==
    IF names = <<>> THEN 0 ELSE DecrementsOf(Head(names)) + CompletedDecrements(Tail(names))

RECURSIVE CompletedIncrements(_)
CompletedIncrements(names) ==
    IF names = <<>> THEN 0
    ELSE PVLen(fetch_all_set[Head(names)].result) + CompletedIncrements(Tail(names))

\* a - k in the arithmetic of a usize.
WrappingSub(a, k) == IF k <= a THEN a - k ELSE UsizeMax - (k - a - 1)

\* C35: updates of the shared Counts are never lost: in every interleaving of
\* the package tasks, remaining_requests is its starting value minus the number
\* of decrements the tasks have completed, and package_versions is its starting
\* value (0) plus the sum of the page lengths the tasks have added.  The
\* subtraction is the one of a usize: a decrement of 0 that does not panic wraps.
C35_NoCountsUpdateIsLost ==
    /\ counts.remaining_requests =
            WrappingSub(requests.remaining_at_start, CompletedDecrements(Packages))
    /\ counts.package_versions = CompletedIncrements(Packages)

\* Both tasks have finished: three pages were answered and counted, their
\* updates interleaved, and the budget of 3 is used up.
C35_Witness ==
    /\ requests.remaining_at_start = 3
    /\ counts.remaining_requests = 0
    /\ counts.package_versions = 6
    /\ \A p \in DOMAIN fetch_all_set : fetch_all_set[p].state = "ok"

----------------------------------------------------------------------------
(* The time until the rate limit resets *)

\* C36: the deletion executor completes for every value of rate_limit_reset, a
\* reset time in the past included: it never aborts while computing the time
\* until the reset, whether or not the budget was exhausted.
C36_ExecutorNeverAborts == pc # "panicked"

----------------------------------------------------------------------------
(* The delete map after digest reconciliation *)

\* C37: each package version appears at most once in the delete map returned by
\* select_package_versions: never twice in the untagged list and never in both
\* lists, so the executor sends at most one DELETE per version.
C37_NoVersionTwiceInTheDeleteMap ==
    pc = "selected" =>
        \A p \in DOMAIN package_version_map :
            LET m == package_version_map[p]
            IN  /\ Cardinality(Range(m.untagged)) = Len(m.untagged)
                /\ Cardinality(Range(m.tagged)) = Len(m.tagged)
                /\ Range(m.untagged) \cap Range(m.tagged) = {}

\* C38: every version in the delete map returned by select_package_versions,
\* tagged or untagged, has a relevant timestamp older than now - cut_off: digest
\* reconciliation adds no version that the cut-off step discarded.
C38_DeleteMapIsOlderThanCutoff ==
    pc = "selected" =>
        \A p \in DOMAIN package_version_map :
            \A v \in Range(package_version_map[p].untagged) \cup Range(package_version_map[p].tagged) :
                RelevantOf(v) < input.now - input.cut_off

----------------------------------------------------------------------------
(* Fetching the packages by name *)

\* C39: with a Temporal token fetch_package is called exactly once per configured
\* image name (every name is fetched or still to fetch, none twice), and the calls
\* run in parallel: with two or more names, when the first call has returned the
\* calls of the other names are in flight already, so that more than one request
\* is in flight at the same time.
C39_FetchPackageCallsRunInParallel ==
    (pc = "fetch_individual_packages" /\ Len(input.image_names) >= 2) =>
        /\ package_fetch.packages \o package_fetch.names = input.image_names
        /\ package_fetch.packages # <<>> =>
                Range(package_fetch.names) \subseteq package_fetch.in_flight

====
